---------------------------- MODULE Spec2Model ----------------------------
(***************************************************************************)
(* Model of Week_2/merge_dataset.py: the corpus cleaning pipeline          *)
(* (load -> language filter -> strip_html -> MinHash/LSH deduplication ->  *)
(* remove_pii -> remove_repetitive_ngrams -> write corpus -> statistics).  *)
(*                                                                         *)
(* A text is a sequence of one-character strings, so that every function   *)
(* of the pipeline is computed on characters, as the code computes it.     *)
(***************************************************************************)
EXTENDS Integers, Sequences, FiniteSets, TLC

VARIABLES
    pc,             \* position of the script / of the function under study
    all_texts,      \* merge_dataset.py:125
    langs,          \* detect_language(t) for every t of all_texts (line 137)
    lang_filtered,  \* merge_dataset.py:137
    cleaned,        \* merge_dataset.py:141
    lsh,            \* merge_dataset.py:145, the MinHashLSH index
    deduped,        \* merge_dataset.py:146
    verdicts,       \* history: for every processed text of cleaned, was it accepted
    no_pii,         \* merge_dataset.py:158
    final_texts,    \* merge_dataset.py:161
    outfile,        \* the characters written to OUTPUT_TXT (lines 165-167)
    stats,          \* the numbers of lines 171-173, written to STATS_MD
    error,          \* the exception that ended the script, "none" while it runs
    \* load_file and the loading loop (lines 35-66, 124-133)
    fidx,           \* index in FILES of the file the loop of line 126 is at
    lpc,            \* "next": between files, "reading": in the loop of line 40
    docs,           \* load_file's docs (line 37)
    file_lines,     \* the lines the loop of line 40 has taken from the open file
    nread,          \* the number of lines read so far, all files together
    console,        \* what the loading loop has printed (lines 131, 133)
    returned,       \* history: what each call of load_file returned (line 129)
    \* strip_html applied, and applied again to its own result
    strip_arg,      \* the text given to strip_html
    strip_results,  \* the outcomes of strip_html(strip_arg) and of strip_html on its text
    \* remove_repetitive_ngrams (lines 97-111), token by token
    tokens,         \* line 99
    seen,           \* line 102
    result,         \* line 103
    ng_idx,         \* the number of n-grams the loop of line 104 has consumed
    collapse_pc,    \* "loop": in the loop of line 104, "done": after line 110
    \* remove_pii (lines 85-94), pattern by pattern
    pii_text,       \* text (line 93)
    pii_hist        \* the argument, then text after each pattern

pipeVars == <<pc, all_texts, langs, lang_filtered, cleaned, lsh, deduped,
              verdicts, no_pii, final_texts, outfile, stats, error>>
\* the script's variables that the loading loop leaves alone
pipeRest == <<langs, lang_filtered, cleaned, lsh, deduped,
              verdicts, no_pii, final_texts, outfile, stats, error>>
loadVars == <<fidx, lpc, docs, file_lines, nread, console, returned>>
stripVars == <<strip_arg, strip_results>>
collapseVars == <<tokens, seen, result, ng_idx, collapse_pc>>
piiVars == <<pii_text, pii_hist>>
vars == <<pipeVars, loadVars, stripVars, collapseVars, piiVars>>

----------------------------------------------------------------------------
(* Generic helpers *)

Range(s) == {s[k] : k \in 1..Len(s)}

Max(a, b) == IF a >= b THEN a ELSE b

RECURSIVE SumSeq(_)
SumSeq(s) == IF s = <<>> THEN 0 ELSE Head(s) + SumSeq(Tail(s))

RECURSIVE Flatten(_)
Flatten(ss) == IF ss = <<>> THEN <<>> ELSE Head(ss) \o Flatten(Tail(ss))

\* " ".join(parts)
RECURSIVE JoinSpace(_)
JoinSpace(parts) ==
    IF parts = <<>> THEN <<>>
    ELSE IF Len(parts) = 1 THEN Head(parts)
    ELSE Head(parts) \o <<" ">> \o JoinSpace(Tail(parts))

\* every list of at most k elements of pool
RECURSIVE ListsOf(_, _)
ListsOf(pool, k) ==
    IF k = 0 THEN {<<>>}
    ELSE LET shorter == ListsOf(pool, k - 1)
         IN  shorter \cup {Append(l, d) : l \in shorter, d \in pool}

\* every text made of at most k of the pieces, one after the other
RECURSIVE Concats(_, _)
Concats(pieces, k) ==
    IF k = 0 THEN {<<>>}
    ELSE LET shorter == Concats(pieces, k - 1)
         IN  shorter \cup {x \o piece : x \in shorter, piece \in pieces}

\* s is a subsequence of t (order kept, elements possibly left out)
RECURSIVE IsSubseq(_, _)
IsSubseq(s, t) ==
    IF s = <<>> THEN TRUE
    ELSE IF t = <<>> THEN FALSE
    ELSE IF Head(s) = Head(t) THEN IsSubseq(Tail(s), Tail(t))
    ELSE IsSubseq(s, Tail(t))

----------------------------------------------------------------------------
(* Characters *)

LowerSeq == <<"a","b","c","d","e","f","g","h","i","j","k","l","m",
              "n","o","p","q","r","s","t","u","v","w","x","y","z">>
UpperSeq == <<"A","B","C","D","E","F","G","H","I","J","K","L","M",
              "N","O","P","Q","R","S","T","U","V","W","X","Y","Z">>
DigitSeq == <<"0","1","2","3","4","5","6","7","8","9">>
OtherSeq == <<" ","\n","-",".","@","_","[","]","<",">","/","&",";">>

\* [a-zA-Z] and [0-9], the classes of html.parser, html.unescape and json
AsciiLetters == Range(LowerSeq) \cup Range(UpperSeq)
AsciiDigits  == Range(DigitSeq)
HexChars == AsciiDigits \cup {"a","b","c","d","e","f","A","B","C","D","E","F"}

\* the value of a hexadecimal digit, -1 for any other character
HexVal(c) ==
    LET lower == <<"0","1","2","3","4","5","6","7","8","9","a","b","c","d","e","f">>
        upper == <<"0","1","2","3","4","5","6","7","8","9","A","B","C","D","E","F">>
        ks == {k \in 1..16 : lower[k] = c \/ upper[k] = c}
    IN  IF ks = {} THEN -1 ELSE (CHOOSE k \in ks : TRUE) - 1

\* the printable ASCII characters, U+0020 to U+007E (the grave accent, which
\* a string of this notation cannot hold, by its code point)
Ascii ==
    <<" ","!","\"","#","$","%","&","'","(",")","*","+",",","-",".","/",
      "0","1","2","3","4","5","6","7","8","9",":",";","<","=",">","?",
      "@","A","B","C","D","E","F","G","H","I","J","K","L","M","N","O",
      "P","Q","R","S","T","U","V","W","X","Y","Z","[","\\","]","^","_",
      "U+96","a","b","c","d","e","f","g","h","i","j","k","l","m","n","o",
      "p","q","r","s","t","u","v","w","x","y","z","{","|","}","~">>

\* chr(n): the character is a one-character string when it is printable
\* ASCII, a tab, a line feed, a form feed or a carriage return, and the
\* string "U+n", n its code point in decimal, otherwise
Chr(n) ==
    IF n \in 32..126 THEN Ascii[n - 31]
    ELSE IF n = 9 THEN "\t"
    ELSE IF n = 10 THEN "\n"
    ELSE IF n = 12 THEN "\f"
    ELSE IF n = 13 THEN "\r"
    ELSE "U+" \o ToString(n)

\* the characters of the code points of a set of ranges <<first, last>>
CharsOf(R) == {Chr(n) : n \in UNION {r[1]..r[2] : r \in R}}

\* the code points of regex \w in a str pattern: "_" and every character
\* that str.isalnum() accepts (Unicode 14.0)
WordRanges ==
    { <<48, 57>>, <<65, 90>>, <<95, 95>>, <<97, 122>>, <<170, 170>>,
      <<178, 179>>, <<181, 181>>, <<185, 186>>, <<188, 190>>, <<192, 214>>,
      <<216, 246>>, <<248, 705>>, <<710, 721>>, <<736, 740>>, <<748, 748>>,
      <<750, 750>>, <<880, 884>>, <<886, 887>>, <<890, 893>>, <<895, 895>>,
      <<902, 902>>, <<904, 906>>, <<908, 908>>, <<910, 929>>, <<931, 1013>>,
      <<1015, 1153>>, <<1162, 1327>>, <<1329, 1366>>, <<1369, 1369>>,
      <<1376, 1416>>, <<1488, 1514>>, <<1519, 1522>>, <<1568, 1610>>,
      <<1632, 1641>>, <<1646, 1647>>, <<1649, 1747>>, <<1749, 1749>>,
      <<1765, 1766>>, <<1774, 1788>>, <<1791, 1791>>, <<1808, 1808>>,
      <<1810, 1839>>, <<1869, 1957>>, <<1969, 1969>>, <<1984, 2026>>,
      <<2036, 2037>>, <<2042, 2042>>, <<2048, 2069>>, <<2074, 2074>>,
      <<2084, 2084>>, <<2088, 2088>>, <<2112, 2136>>, <<2144, 2154>>,
      <<2160, 2183>>, <<2185, 2190>>, <<2208, 2249>>, <<2308, 2361>>,
      <<2365, 2365>>, <<2384, 2384>>, <<2392, 2401>>, <<2406, 2415>>,
      <<2417, 2432>>, <<2437, 2444>>, <<2447, 2448>>, <<2451, 2472>>,
      <<2474, 2480>>, <<2482, 2482>>, <<2486, 2489>>, <<2493, 2493>>,
      <<2510, 2510>>, <<2524, 2525>>, <<2527, 2529>>, <<2534, 2545>>,
      <<2548, 2553>>, <<2556, 2556>>, <<2565, 2570>>, <<2575, 2576>>,
      <<2579, 2600>>, <<2602, 2608>>, <<2610, 2611>>, <<2613, 2614>>,
      <<2616, 2617>>, <<2649, 2652>>, <<2654, 2654>>, <<2662, 2671>>,
      <<2674, 2676>>, <<2693, 2701>>, <<2703, 2705>>, <<2707, 2728>>,
      <<2730, 2736>>, <<2738, 2739>>, <<2741, 2745>>, <<2749, 2749>>,
      <<2768, 2768>>, <<2784, 2785>>, <<2790, 2799>>, <<2809, 2809>>,
      <<2821, 2828>>, <<2831, 2832>>, <<2835, 2856>>, <<2858, 2864>>,
      <<2866, 2867>>, <<2869, 2873>>, <<2877, 2877>>, <<2908, 2909>>,
      <<2911, 2913>>, <<2918, 2927>>, <<2929, 2935>>, <<2947, 2947>>,
      <<2949, 2954>>, <<2958, 2960>>, <<2962, 2965>>, <<2969, 2970>>,
      <<2972, 2972>>, <<2974, 2975>>, <<2979, 2980>>, <<2984, 2986>>,
      <<2990, 3001>>, <<3024, 3024>>, <<3046, 3058>>, <<3077, 3084>>,
      <<3086, 3088>>, <<3090, 3112>>, <<3114, 3129>>, <<3133, 3133>>,
      <<3160, 3162>>, <<3165, 3165>>, <<3168, 3169>>, <<3174, 3183>>,
      <<3192, 3198>>, <<3200, 3200>>, <<3205, 3212>>, <<3214, 3216>>,
      <<3218, 3240>>, <<3242, 3251>>, <<3253, 3257>>, <<3261, 3261>>,
      <<3293, 3294>>, <<3296, 3297>>, <<3302, 3311>>, <<3313, 3314>>,
      <<3332, 3340>>, <<3342, 3344>>, <<3346, 3386>>, <<3389, 3389>>,
      <<3406, 3406>>, <<3412, 3414>>, <<3416, 3425>>, <<3430, 3448>>,
      <<3450, 3455>>, <<3461, 3478>>, <<3482, 3505>>, <<3507, 3515>>,
      <<3517, 3517>>, <<3520, 3526>>, <<3558, 3567>>, <<3585, 3632>>,
      <<3634, 3635>>, <<3648, 3654>>, <<3664, 3673>>, <<3713, 3714>>,
      <<3716, 3716>>, <<3718, 3722>>, <<3724, 3747>>, <<3749, 3749>>,
      <<3751, 3760>>, <<3762, 3763>>, <<3773, 3773>>, <<3776, 3780>>,
      <<3782, 3782>>, <<3792, 3801>>, <<3804, 3807>>, <<3840, 3840>>,
      <<3872, 3891>>, <<3904, 3911>>, <<3913, 3948>>, <<3976, 3980>>,
      <<4096, 4138>>, <<4159, 4169>>, <<4176, 4181>>, <<4186, 4189>>,
      <<4193, 4193>>, <<4197, 4198>>, <<4206, 4208>>, <<4213, 4225>>,
      <<4238, 4238>>, <<4240, 4249>>, <<4256, 4293>>, <<4295, 4295>>,
      <<4301, 4301>>, <<4304, 4346>>, <<4348, 4680>>, <<4682, 4685>>,
      <<4688, 4694>>, <<4696, 4696>>, <<4698, 4701>>, <<4704, 4744>>,
      <<4746, 4749>>, <<4752, 4784>>, <<4786, 4789>>, <<4792, 4798>>,
      <<4800, 4800>>, <<4802, 4805>>, <<4808, 4822>>, <<4824, 4880>>,
      <<4882, 4885>>, <<4888, 4954>>, <<4969, 4988>>, <<4992, 5007>>,
      <<5024, 5109>>, <<5112, 5117>>, <<5121, 5740>>, <<5743, 5759>>,
      <<5761, 5786>>, <<5792, 5866>>, <<5870, 5880>>, <<5888, 5905>>,
      <<5919, 5937>>, <<5952, 5969>>, <<5984, 5996>>, <<5998, 6000>>,
      <<6016, 6067>>, <<6103, 6103>>, <<6108, 6108>>, <<6112, 6121>>,
      <<6128, 6137>>, <<6160, 6169>>, <<6176, 6264>>, <<6272, 6276>>,
      <<6279, 6312>>, <<6314, 6314>>, <<6320, 6389>>, <<6400, 6430>>,
      <<6470, 6509>>, <<6512, 6516>>, <<6528, 6571>>, <<6576, 6601>>,
      <<6608, 6618>>, <<6656, 6678>>, <<6688, 6740>>, <<6784, 6793>>,
      <<6800, 6809>>, <<6823, 6823>>, <<6917, 6963>>, <<6981, 6988>>,
      <<6992, 7001>>, <<7043, 7072>>, <<7086, 7141>>, <<7168, 7203>>,
      <<7232, 7241>>, <<7245, 7293>>, <<7296, 7304>>, <<7312, 7354>>,
      <<7357, 7359>>, <<7401, 7404>>, <<7406, 7411>>, <<7413, 7414>>,
      <<7418, 7418>>, <<7424, 7615>>, <<7680, 7957>>, <<7960, 7965>>,
      <<7968, 8005>>, <<8008, 8013>>, <<8016, 8023>>, <<8025, 8025>>,
      <<8027, 8027>>, <<8029, 8029>>, <<8031, 8061>>, <<8064, 8116>>,
      <<8118, 8124>>, <<8126, 8126>>, <<8130, 8132>>, <<8134, 8140>>,
      <<8144, 8147>>, <<8150, 8155>>, <<8160, 8172>>, <<8178, 8180>>,
      <<8182, 8188>>, <<8304, 8305>>, <<8308, 8313>>, <<8319, 8329>>,
      <<8336, 8348>>, <<8450, 8450>>, <<8455, 8455>>, <<8458, 8467>>,
      <<8469, 8469>>, <<8473, 8477>>, <<8484, 8484>>, <<8486, 8486>>,
      <<8488, 8488>>, <<8490, 8493>>, <<8495, 8505>>, <<8508, 8511>>,
      <<8517, 8521>>, <<8526, 8526>>, <<8528, 8585>>, <<9312, 9371>>,
      <<9450, 9471>>, <<10102, 10131>>, <<11264, 11492>>, <<11499, 11502>>,
      <<11506, 11507>>, <<11517, 11517>>, <<11520, 11557>>, <<11559, 11559>>,
      <<11565, 11565>>, <<11568, 11623>>, <<11631, 11631>>, <<11648, 11670>>,
      <<11680, 11686>>, <<11688, 11694>>, <<11696, 11702>>, <<11704, 11710>>,
      <<11712, 11718>>, <<11720, 11726>>, <<11728, 11734>>, <<11736, 11742>>,
      <<11823, 11823>>, <<12293, 12295>>, <<12321, 12329>>, <<12337, 12341>>,
      <<12344, 12348>>, <<12353, 12438>>, <<12445, 12447>>, <<12449, 12538>>,
      <<12540, 12543>>, <<12549, 12591>>, <<12593, 12686>>, <<12690, 12693>>,
      <<12704, 12735>>, <<12784, 12799>>, <<12832, 12841>>, <<12872, 12879>>,
      <<12881, 12895>>, <<12928, 12937>>, <<12977, 12991>>, <<13312, 19903>>,
      <<19968, 42124>>, <<42192, 42237>>, <<42240, 42508>>, <<42512, 42539>>,
      <<42560, 42606>>, <<42623, 42653>>, <<42656, 42735>>, <<42775, 42783>>,
      <<42786, 42888>>, <<42891, 42954>>, <<42960, 42961>>, <<42963, 42963>>,
      <<42965, 42969>>, <<42994, 43009>>, <<43011, 43013>>, <<43015, 43018>>,
      <<43020, 43042>>, <<43056, 43061>>, <<43072, 43123>>, <<43138, 43187>>,
      <<43216, 43225>>, <<43250, 43255>>, <<43259, 43259>>, <<43261, 43262>>,
      <<43264, 43301>>, <<43312, 43334>>, <<43360, 43388>>, <<43396, 43442>>,
      <<43471, 43481>>, <<43488, 43492>>, <<43494, 43518>>, <<43520, 43560>>,
      <<43584, 43586>>, <<43588, 43595>>, <<43600, 43609>>, <<43616, 43638>>,
      <<43642, 43642>>, <<43646, 43695>>, <<43697, 43697>>, <<43701, 43702>>,
      <<43705, 43709>>, <<43712, 43712>>, <<43714, 43714>>, <<43739, 43741>>,
      <<43744, 43754>>, <<43762, 43764>>, <<43777, 43782>>, <<43785, 43790>>,
      <<43793, 43798>>, <<43808, 43814>>, <<43816, 43822>>, <<43824, 43866>>,
      <<43868, 43881>>, <<43888, 44002>>, <<44016, 44025>>, <<44032, 55203>>,
      <<55216, 55238>>, <<55243, 55291>>, <<63744, 64109>>, <<64112, 64217>>,
      <<64256, 64262>>, <<64275, 64279>>, <<64285, 64285>>, <<64287, 64296>>,
      <<64298, 64310>>, <<64312, 64316>>, <<64318, 64318>>, <<64320, 64321>>,
      <<64323, 64324>>, <<64326, 64433>>, <<64467, 64829>>, <<64848, 64911>>,
      <<64914, 64967>>, <<65008, 65019>>, <<65136, 65140>>, <<65142, 65276>>,
      <<65296, 65305>>, <<65313, 65338>>, <<65345, 65370>>, <<65382, 65470>>,
      <<65474, 65479>>, <<65482, 65487>>, <<65490, 65495>>, <<65498, 65500>>,
      <<65536, 65547>>, <<65549, 65574>>, <<65576, 65594>>, <<65596, 65597>>,
      <<65599, 65613>>, <<65616, 65629>>, <<65664, 65786>>, <<65799, 65843>>,
      <<65856, 65912>>, <<65930, 65931>>, <<66176, 66204>>, <<66208, 66256>>,
      <<66273, 66299>>, <<66304, 66339>>, <<66349, 66378>>, <<66384, 66421>>,
      <<66432, 66461>>, <<66464, 66499>>, <<66504, 66511>>, <<66513, 66517>>,
      <<66560, 66717>>, <<66720, 66729>>, <<66736, 66771>>, <<66776, 66811>>,
      <<66816, 66855>>, <<66864, 66915>>, <<66928, 66938>>, <<66940, 66954>>,
      <<66956, 66962>>, <<66964, 66965>>, <<66967, 66977>>, <<66979, 66993>>,
      <<66995, 67001>>, <<67003, 67004>>, <<67072, 67382>>, <<67392, 67413>>,
      <<67424, 67431>>, <<67456, 67461>>, <<67463, 67504>>, <<67506, 67514>>,
      <<67584, 67589>>, <<67592, 67592>>, <<67594, 67637>>, <<67639, 67640>>,
      <<67644, 67644>>, <<67647, 67669>>, <<67672, 67702>>, <<67705, 67742>>,
      <<67751, 67759>>, <<67808, 67826>>, <<67828, 67829>>, <<67835, 67867>>,
      <<67872, 67897>>, <<67968, 68023>>, <<68028, 68047>>, <<68050, 68096>>,
      <<68112, 68115>>, <<68117, 68119>>, <<68121, 68149>>, <<68160, 68168>>,
      <<68192, 68222>>, <<68224, 68255>>, <<68288, 68295>>, <<68297, 68324>>,
      <<68331, 68335>>, <<68352, 68405>>, <<68416, 68437>>, <<68440, 68466>>,
      <<68472, 68497>>, <<68521, 68527>>, <<68608, 68680>>, <<68736, 68786>>,
      <<68800, 68850>>, <<68858, 68899>>, <<68912, 68921>>, <<69216, 69246>>,
      <<69248, 69289>>, <<69296, 69297>>, <<69376, 69415>>, <<69424, 69445>>,
      <<69457, 69460>>, <<69488, 69505>>, <<69552, 69579>>, <<69600, 69622>>,
      <<69635, 69687>>, <<69714, 69743>>, <<69745, 69746>>, <<69749, 69749>>,
      <<69763, 69807>>, <<69840, 69864>>, <<69872, 69881>>, <<69891, 69926>>,
      <<69942, 69951>>, <<69956, 69956>>, <<69959, 69959>>, <<69968, 70002>>,
      <<70006, 70006>>, <<70019, 70066>>, <<70081, 70084>>, <<70096, 70106>>,
      <<70108, 70108>>, <<70113, 70132>>, <<70144, 70161>>, <<70163, 70187>>,
      <<70272, 70278>>, <<70280, 70280>>, <<70282, 70285>>, <<70287, 70301>>,
      <<70303, 70312>>, <<70320, 70366>>, <<70384, 70393>>, <<70405, 70412>>,
      <<70415, 70416>>, <<70419, 70440>>, <<70442, 70448>>, <<70450, 70451>>,
      <<70453, 70457>>, <<70461, 70461>>, <<70480, 70480>>, <<70493, 70497>>,
      <<70656, 70708>>, <<70727, 70730>>, <<70736, 70745>>, <<70751, 70753>>,
      <<70784, 70831>>, <<70852, 70853>>, <<70855, 70855>>, <<70864, 70873>>,
      <<71040, 71086>>, <<71128, 71131>>, <<71168, 71215>>, <<71236, 71236>>,
      <<71248, 71257>>, <<71296, 71338>>, <<71352, 71352>>, <<71360, 71369>>,
      <<71424, 71450>>, <<71472, 71483>>, <<71488, 71494>>, <<71680, 71723>>,
      <<71840, 71922>>, <<71935, 71942>>, <<71945, 71945>>, <<71948, 71955>>,
      <<71957, 71958>>, <<71960, 71983>>, <<71999, 71999>>, <<72001, 72001>>,
      <<72016, 72025>>, <<72096, 72103>>, <<72106, 72144>>, <<72161, 72161>>,
      <<72163, 72163>>, <<72192, 72192>>, <<72203, 72242>>, <<72250, 72250>>,
      <<72272, 72272>>, <<72284, 72329>>, <<72349, 72349>>, <<72368, 72440>>,
      <<72704, 72712>>, <<72714, 72750>>, <<72768, 72768>>, <<72784, 72812>>,
      <<72818, 72847>>, <<72960, 72966>>, <<72968, 72969>>, <<72971, 73008>>,
      <<73030, 73030>>, <<73040, 73049>>, <<73056, 73061>>, <<73063, 73064>>,
      <<73066, 73097>>, <<73112, 73112>>, <<73120, 73129>>, <<73440, 73458>>,
      <<73648, 73648>>, <<73664, 73684>>, <<73728, 74649>>, <<74752, 74862>>,
      <<74880, 75075>>, <<77712, 77808>>, <<77824, 78894>>, <<82944, 83526>>,
      <<92160, 92728>>, <<92736, 92766>>, <<92768, 92777>>, <<92784, 92862>>,
      <<92864, 92873>>, <<92880, 92909>>, <<92928, 92975>>, <<92992, 92995>>,
      <<93008, 93017>>, <<93019, 93025>>, <<93027, 93047>>, <<93053, 93071>>,
      <<93760, 93846>>, <<93952, 94026>>, <<94032, 94032>>, <<94099, 94111>>,
      <<94176, 94177>>, <<94179, 94179>>, <<94208, 100343>>,
      <<100352, 101589>>, <<101632, 101640>>, <<110576, 110579>>,
      <<110581, 110587>>, <<110589, 110590>>, <<110592, 110882>>,
      <<110928, 110930>>, <<110948, 110951>>, <<110960, 111355>>,
      <<113664, 113770>>, <<113776, 113788>>, <<113792, 113800>>,
      <<113808, 113817>>, <<119520, 119539>>, <<119648, 119672>>,
      <<119808, 119892>>, <<119894, 119964>>, <<119966, 119967>>,
      <<119970, 119970>>, <<119973, 119974>>, <<119977, 119980>>,
      <<119982, 119993>>, <<119995, 119995>>, <<119997, 120003>>,
      <<120005, 120069>>, <<120071, 120074>>, <<120077, 120084>>,
      <<120086, 120092>>, <<120094, 120121>>, <<120123, 120126>>,
      <<120128, 120132>>, <<120134, 120134>>, <<120138, 120144>>,
      <<120146, 120485>>, <<120488, 120512>>, <<120514, 120538>>,
      <<120540, 120570>>, <<120572, 120596>>, <<120598, 120628>>,
      <<120630, 120654>>, <<120656, 120686>>, <<120688, 120712>>,
      <<120714, 120744>>, <<120746, 120770>>, <<120772, 120779>>,
      <<120782, 120831>>, <<122624, 122654>>, <<123136, 123180>>,
      <<123191, 123197>>, <<123200, 123209>>, <<123214, 123214>>,
      <<123536, 123565>>, <<123584, 123627>>, <<123632, 123641>>,
      <<124896, 124902>>, <<124904, 124907>>, <<124909, 124910>>,
      <<124912, 124926>>, <<124928, 125124>>, <<125127, 125135>>,
      <<125184, 125251>>, <<125259, 125259>>, <<125264, 125273>>,
      <<126065, 126123>>, <<126125, 126127>>, <<126129, 126132>>,
      <<126209, 126253>>, <<126255, 126269>>, <<126464, 126467>>,
      <<126469, 126495>>, <<126497, 126498>>, <<126500, 126500>>,
      <<126503, 126503>>, <<126505, 126514>>, <<126516, 126519>>,
      <<126521, 126521>>, <<126523, 126523>>, <<126530, 126530>>,
      <<126535, 126535>>, <<126537, 126537>>, <<126539, 126539>>,
      <<126541, 126543>>, <<126545, 126546>>, <<126548, 126548>>,
      <<126551, 126551>>, <<126553, 126553>>, <<126555, 126555>>,
      <<126557, 126557>>, <<126559, 126559>>, <<126561, 126562>>,
      <<126564, 126564>>, <<126567, 126570>>, <<126572, 126578>>,
      <<126580, 126583>>, <<126585, 126588>>, <<126590, 126590>>,
      <<126592, 126601>>, <<126603, 126619>>, <<126625, 126627>>,
      <<126629, 126633>>, <<126635, 126651>>, <<127232, 127244>>,
      <<130032, 130041>>, <<131072, 173791>>, <<173824, 177976>>,
      <<177984, 178205>>, <<178208, 183969>>, <<183984, 191456>>,
      <<194560, 195101>>, <<196608, 201546>> }

\* regex \w
WordChars == CharsOf(WordRanges)

\* the code points of regex \d in a str pattern: the decimal digits of
\* every script
DigitRanges ==
    { <<48, 57>>, <<1632, 1641>>, <<1776, 1785>>, <<1984, 1993>>,
      <<2406, 2415>>, <<2534, 2543>>, <<2662, 2671>>, <<2790, 2799>>,
      <<2918, 2927>>, <<3046, 3055>>, <<3174, 3183>>, <<3302, 3311>>,
      <<3430, 3439>>, <<3558, 3567>>, <<3664, 3673>>, <<3792, 3801>>,
      <<3872, 3881>>, <<4160, 4169>>, <<4240, 4249>>, <<6112, 6121>>,
      <<6160, 6169>>, <<6470, 6479>>, <<6608, 6617>>, <<6784, 6793>>,
      <<6800, 6809>>, <<6992, 7001>>, <<7088, 7097>>, <<7232, 7241>>,
      <<7248, 7257>>, <<42528, 42537>>, <<43216, 43225>>, <<43264, 43273>>,
      <<43472, 43481>>, <<43504, 43513>>, <<43600, 43609>>, <<44016, 44025>>,
      <<65296, 65305>>, <<66720, 66729>>, <<68912, 68921>>, <<69734, 69743>>,
      <<69872, 69881>>, <<69942, 69951>>, <<70096, 70105>>, <<70384, 70393>>,
      <<70736, 70745>>, <<70864, 70873>>, <<71248, 71257>>, <<71360, 71369>>,
      <<71472, 71481>>, <<71904, 71913>>, <<72016, 72025>>, <<72784, 72793>>,
      <<73040, 73049>>, <<73120, 73129>>, <<92768, 92777>>, <<92864, 92873>>,
      <<93008, 93017>>, <<120782, 120831>>, <<123200, 123209>>,
      <<123632, 123641>>, <<125264, 125273>>, <<130032, 130041>> }

\* regex \d
Digits == CharsOf(DigitRanges)

\* regex [^\W\d_]: the letters of \w
Letters == WordChars \ (Digits \cup {"_"})

\* str.isspace(): the white space of regex \s, str.strip() and str.split()
SpaceChars ==
    {Chr(n) : n \in {9, 10, 11, 12, 13, 28, 29, 30, 31, 32, 133, 160, 5760,
                     8232, 8233, 8239, 8287, 12288} \cup 8192..8202}

IsSpace(c) == c \in SpaceChars

\* str.lower(): the code points that one other code point replaces, in rows
\* <<first, last, step, d>>: first, first + step, ... up to last, each
\* replaced by itself plus d
LowerRows ==
    { <<65, 90, 1, 32>>, <<192, 214, 1, 32>>, <<216, 222, 1, 32>>,
      <<256, 302, 2, 1>>, <<306, 310, 2, 1>>, <<313, 327, 2, 1>>,
      <<330, 374, 2, 1>>, <<376, 376, 1, -121>>, <<377, 381, 2, 1>>,
      <<385, 385, 1, 210>>, <<386, 388, 2, 1>>, <<390, 390, 1, 206>>,
      <<391, 391, 1, 1>>, <<393, 394, 1, 205>>, <<395, 395, 1, 1>>,
      <<398, 398, 1, 79>>, <<399, 399, 1, 202>>, <<400, 400, 1, 203>>,
      <<401, 401, 1, 1>>, <<403, 403, 1, 205>>, <<404, 404, 1, 207>>,
      <<406, 406, 1, 211>>, <<407, 407, 1, 209>>, <<408, 408, 1, 1>>,
      <<412, 412, 1, 211>>, <<413, 413, 1, 213>>, <<415, 415, 1, 214>>,
      <<416, 420, 2, 1>>, <<422, 422, 1, 218>>, <<423, 423, 1, 1>>,
      <<425, 425, 1, 218>>, <<428, 428, 1, 1>>, <<430, 430, 1, 218>>,
      <<431, 431, 1, 1>>, <<433, 434, 1, 217>>, <<435, 437, 2, 1>>,
      <<439, 439, 1, 219>>, <<440, 440, 1, 1>>, <<444, 444, 1, 1>>,
      <<452, 452, 1, 2>>, <<453, 453, 1, 1>>, <<455, 455, 1, 2>>,
      <<456, 456, 1, 1>>, <<458, 458, 1, 2>>, <<459, 475, 2, 1>>,
      <<478, 494, 2, 1>>, <<497, 497, 1, 2>>, <<498, 500, 2, 1>>,
      <<502, 502, 1, -97>>, <<503, 503, 1, -56>>, <<504, 542, 2, 1>>,
      <<544, 544, 1, -130>>, <<546, 562, 2, 1>>, <<570, 570, 1, 10795>>,
      <<571, 571, 1, 1>>, <<573, 573, 1, -163>>, <<574, 574, 1, 10792>>,
      <<577, 577, 1, 1>>, <<579, 579, 1, -195>>, <<580, 580, 1, 69>>,
      <<581, 581, 1, 71>>, <<582, 590, 2, 1>>, <<880, 882, 2, 1>>,
      <<886, 886, 1, 1>>, <<895, 895, 1, 116>>, <<902, 902, 1, 38>>,
      <<904, 906, 1, 37>>, <<908, 908, 1, 64>>, <<910, 911, 1, 63>>,
      <<913, 929, 1, 32>>, <<931, 939, 1, 32>>, <<975, 975, 1, 8>>,
      <<984, 1006, 2, 1>>, <<1012, 1012, 1, -60>>, <<1015, 1015, 1, 1>>,
      <<1017, 1017, 1, -7>>, <<1018, 1018, 1, 1>>, <<1021, 1023, 1, -130>>,
      <<1024, 1039, 1, 80>>, <<1040, 1071, 1, 32>>, <<1120, 1152, 2, 1>>,
      <<1162, 1214, 2, 1>>, <<1216, 1216, 1, 15>>, <<1217, 1229, 2, 1>>,
      <<1232, 1326, 2, 1>>, <<1329, 1366, 1, 48>>, <<4256, 4293, 1, 7264>>,
      <<4295, 4295, 1, 7264>>, <<4301, 4301, 1, 7264>>,
      <<5024, 5103, 1, 38864>>, <<5104, 5109, 1, 8>>, <<7312, 7354, 1, -3008>>,
      <<7357, 7359, 1, -3008>>, <<7680, 7828, 2, 1>>, <<7838, 7838, 1, -7615>>,
      <<7840, 7934, 2, 1>>, <<7944, 7951, 1, -8>>, <<7960, 7965, 1, -8>>,
      <<7976, 7983, 1, -8>>, <<7992, 7999, 1, -8>>, <<8008, 8013, 1, -8>>,
      <<8025, 8031, 2, -8>>, <<8040, 8047, 1, -8>>, <<8072, 8079, 1, -8>>,
      <<8088, 8095, 1, -8>>, <<8104, 8111, 1, -8>>, <<8120, 8121, 1, -8>>,
      <<8122, 8123, 1, -74>>, <<8124, 8124, 1, -9>>, <<8136, 8139, 1, -86>>,
      <<8140, 8140, 1, -9>>, <<8152, 8153, 1, -8>>, <<8154, 8155, 1, -100>>,
      <<8168, 8169, 1, -8>>, <<8170, 8171, 1, -112>>, <<8172, 8172, 1, -7>>,
      <<8184, 8185, 1, -128>>, <<8186, 8187, 1, -126>>, <<8188, 8188, 1, -9>>,
      <<8486, 8486, 1, -7517>>, <<8490, 8490, 1, -8383>>,
      <<8491, 8491, 1, -8262>>, <<8498, 8498, 1, 28>>, <<8544, 8559, 1, 16>>,
      <<8579, 8579, 1, 1>>, <<9398, 9423, 1, 26>>, <<11264, 11311, 1, 48>>,
      <<11360, 11360, 1, 1>>, <<11362, 11362, 1, -10743>>,
      <<11363, 11363, 1, -3814>>, <<11364, 11364, 1, -10727>>,
      <<11367, 11371, 2, 1>>, <<11373, 11373, 1, -10780>>,
      <<11374, 11374, 1, -10749>>, <<11375, 11375, 1, -10783>>,
      <<11376, 11376, 1, -10782>>, <<11378, 11378, 1, 1>>,
      <<11381, 11381, 1, 1>>, <<11390, 11391, 1, -10815>>,
      <<11392, 11490, 2, 1>>, <<11499, 11501, 2, 1>>, <<11506, 11506, 1, 1>>,
      <<42560, 42604, 2, 1>>, <<42624, 42650, 2, 1>>, <<42786, 42798, 2, 1>>,
      <<42802, 42862, 2, 1>>, <<42873, 42875, 2, 1>>,
      <<42877, 42877, 1, -35332>>, <<42878, 42886, 2, 1>>,
      <<42891, 42891, 1, 1>>, <<42893, 42893, 1, -42280>>,
      <<42896, 42898, 2, 1>>, <<42902, 42920, 2, 1>>,
      <<42922, 42922, 1, -42308>>, <<42923, 42923, 1, -42319>>,
      <<42924, 42924, 1, -42315>>, <<42925, 42925, 1, -42305>>,
      <<42926, 42926, 1, -42308>>, <<42928, 42928, 1, -42258>>,
      <<42929, 42929, 1, -42282>>, <<42930, 42930, 1, -42261>>,
      <<42931, 42931, 1, 928>>, <<42932, 42946, 2, 1>>,
      <<42948, 42948, 1, -48>>, <<42949, 42949, 1, -42307>>,
      <<42950, 42950, 1, -35384>>, <<42951, 42953, 2, 1>>,
      <<42960, 42960, 1, 1>>, <<42966, 42968, 2, 1>>, <<42997, 42997, 1, 1>>,
      <<65313, 65338, 1, 32>>, <<66560, 66599, 1, 40>>,
      <<66736, 66771, 1, 40>>, <<66928, 66938, 1, 39>>,
      <<66940, 66954, 1, 39>>, <<66956, 66962, 1, 39>>,
      <<66964, 66965, 1, 39>>, <<68736, 68786, 1, 64>>,
      <<71840, 71871, 1, 32>>, <<93760, 93791, 1, 32>>,
      <<125184, 125217, 1, 34>> }

\* the pairs <<character, its lower-case character>> of LowerRows
LowerPairs ==
    {<<Chr(n[1]), Chr(n[2])>> :
        n \in UNION {{<<m, m + r[4]>> : m \in {x \in r[1]..r[2] : (x - r[1]) % r[3] = 0}} :
                        r \in LowerRows}}

HasLower == {p[1] : p \in LowerPairs}

\* str.lower() on one character, out of any context: the characters that
\* replace it.  U+0130 is the one character that two replace.
ToLowerChar(c) ==
    IF c = Chr(304) THEN <<"i", Chr(775)>>
    ELSE IF c \in HasLower THEN <<(CHOOSE p \in LowerPairs : p[1] = c)[2]>>
    ELSE <<c>>

\* the cased characters (Lowercase, Uppercase or Lt)
CasedRanges ==
    { <<65, 90>>, <<97, 122>>, <<170, 170>>, <<181, 181>>, <<186, 186>>,
      <<192, 214>>, <<216, 246>>, <<248, 442>>, <<444, 447>>, <<452, 659>>,
      <<661, 696>>, <<704, 705>>, <<736, 740>>, <<837, 837>>, <<880, 883>>,
      <<886, 887>>, <<890, 893>>, <<895, 895>>, <<902, 902>>, <<904, 906>>,
      <<908, 908>>, <<910, 929>>, <<931, 1013>>, <<1015, 1153>>,
      <<1162, 1327>>, <<1329, 1366>>, <<1376, 1416>>, <<4256, 4293>>,
      <<4295, 4295>>, <<4301, 4301>>, <<4304, 4346>>, <<4349, 4351>>,
      <<5024, 5109>>, <<5112, 5117>>, <<7296, 7304>>, <<7312, 7354>>,
      <<7357, 7359>>, <<7424, 7615>>, <<7680, 7957>>, <<7960, 7965>>,
      <<7968, 8005>>, <<8008, 8013>>, <<8016, 8023>>, <<8025, 8025>>,
      <<8027, 8027>>, <<8029, 8029>>, <<8031, 8061>>, <<8064, 8116>>,
      <<8118, 8124>>, <<8126, 8126>>, <<8130, 8132>>, <<8134, 8140>>,
      <<8144, 8147>>, <<8150, 8155>>, <<8160, 8172>>, <<8178, 8180>>,
      <<8182, 8188>>, <<8305, 8305>>, <<8319, 8319>>, <<8336, 8348>>,
      <<8450, 8450>>, <<8455, 8455>>, <<8458, 8467>>, <<8469, 8469>>,
      <<8473, 8477>>, <<8484, 8484>>, <<8486, 8486>>, <<8488, 8488>>,
      <<8490, 8493>>, <<8495, 8500>>, <<8505, 8505>>, <<8508, 8511>>,
      <<8517, 8521>>, <<8526, 8526>>, <<8544, 8575>>, <<8579, 8580>>,
      <<9398, 9449>>, <<11264, 11492>>, <<11499, 11502>>, <<11506, 11507>>,
      <<11520, 11557>>, <<11559, 11559>>, <<11565, 11565>>, <<42560, 42605>>,
      <<42624, 42653>>, <<42786, 42887>>, <<42891, 42894>>, <<42896, 42954>>,
      <<42960, 42961>>, <<42963, 42963>>, <<42965, 42969>>, <<42997, 42998>>,
      <<43000, 43002>>, <<43824, 43866>>, <<43868, 43880>>, <<43888, 43967>>,
      <<64256, 64262>>, <<64275, 64279>>, <<65313, 65338>>, <<65345, 65370>>,
      <<66560, 66639>>, <<66736, 66771>>, <<66776, 66811>>, <<66928, 66938>>,
      <<66940, 66954>>, <<66956, 66962>>, <<66964, 66965>>, <<66967, 66977>>,
      <<66979, 66993>>, <<66995, 67001>>, <<67003, 67004>>, <<67456, 67456>>,
      <<67459, 67461>>, <<67463, 67504>>, <<67506, 67514>>, <<68736, 68786>>,
      <<68800, 68850>>, <<71840, 71903>>, <<93760, 93823>>, <<119808, 119892>>,
      <<119894, 119964>>, <<119966, 119967>>, <<119970, 119970>>,
      <<119973, 119974>>, <<119977, 119980>>, <<119982, 119993>>,
      <<119995, 119995>>, <<119997, 120003>>, <<120005, 120069>>,
      <<120071, 120074>>, <<120077, 120084>>, <<120086, 120092>>,
      <<120094, 120121>>, <<120123, 120126>>, <<120128, 120132>>,
      <<120134, 120134>>, <<120138, 120144>>, <<120146, 120485>>,
      <<120488, 120512>>, <<120514, 120538>>, <<120540, 120570>>,
      <<120572, 120596>>, <<120598, 120628>>, <<120630, 120654>>,
      <<120656, 120686>>, <<120688, 120712>>, <<120714, 120744>>,
      <<120746, 120770>>, <<120772, 120779>>, <<122624, 122633>>,
      <<122635, 122654>>, <<125184, 125251>>, <<127280, 127305>>,
      <<127312, 127337>>, <<127344, 127369>> }

Cased == CharsOf(CasedRanges)

\* the case-ignorable characters
CaseIgnorableRanges ==
    { <<39, 39>>, <<46, 46>>, <<58, 58>>, <<94, 94>>, <<96, 96>>, <<168, 168>>,
      <<173, 173>>, <<175, 175>>, <<180, 180>>, <<183, 184>>, <<688, 879>>,
      <<884, 885>>, <<890, 890>>, <<900, 901>>, <<903, 903>>, <<1155, 1161>>,
      <<1369, 1369>>, <<1375, 1375>>, <<1425, 1469>>, <<1471, 1471>>,
      <<1473, 1474>>, <<1476, 1477>>, <<1479, 1479>>, <<1524, 1524>>,
      <<1536, 1541>>, <<1552, 1562>>, <<1564, 1564>>, <<1600, 1600>>,
      <<1611, 1631>>, <<1648, 1648>>, <<1750, 1757>>, <<1759, 1768>>,
      <<1770, 1773>>, <<1807, 1807>>, <<1809, 1809>>, <<1840, 1866>>,
      <<1958, 1968>>, <<2027, 2037>>, <<2042, 2042>>, <<2045, 2045>>,
      <<2070, 2093>>, <<2137, 2139>>, <<2184, 2184>>, <<2192, 2193>>,
      <<2200, 2207>>, <<2249, 2306>>, <<2362, 2362>>, <<2364, 2364>>,
      <<2369, 2376>>, <<2381, 2381>>, <<2385, 2391>>, <<2402, 2403>>,
      <<2417, 2417>>, <<2433, 2433>>, <<2492, 2492>>, <<2497, 2500>>,
      <<2509, 2509>>, <<2530, 2531>>, <<2558, 2558>>, <<2561, 2562>>,
      <<2620, 2620>>, <<2625, 2626>>, <<2631, 2632>>, <<2635, 2637>>,
      <<2641, 2641>>, <<2672, 2673>>, <<2677, 2677>>, <<2689, 2690>>,
      <<2748, 2748>>, <<2753, 2757>>, <<2759, 2760>>, <<2765, 2765>>,
      <<2786, 2787>>, <<2810, 2815>>, <<2817, 2817>>, <<2876, 2876>>,
      <<2879, 2879>>, <<2881, 2884>>, <<2893, 2893>>, <<2901, 2902>>,
      <<2914, 2915>>, <<2946, 2946>>, <<3008, 3008>>, <<3021, 3021>>,
      <<3072, 3072>>, <<3076, 3076>>, <<3132, 3132>>, <<3134, 3136>>,
      <<3142, 3144>>, <<3146, 3149>>, <<3157, 3158>>, <<3170, 3171>>,
      <<3201, 3201>>, <<3260, 3260>>, <<3263, 3263>>, <<3270, 3270>>,
      <<3276, 3277>>, <<3298, 3299>>, <<3328, 3329>>, <<3387, 3388>>,
      <<3393, 3396>>, <<3405, 3405>>, <<3426, 3427>>, <<3457, 3457>>,
      <<3530, 3530>>, <<3538, 3540>>, <<3542, 3542>>, <<3633, 3633>>,
      <<3636, 3642>>, <<3654, 3662>>, <<3761, 3761>>, <<3764, 3772>>,
      <<3782, 3782>>, <<3784, 3789>>, <<3864, 3865>>, <<3893, 3893>>,
      <<3895, 3895>>, <<3897, 3897>>, <<3953, 3966>>, <<3968, 3972>>,
      <<3974, 3975>>, <<3981, 3991>>, <<3993, 4028>>, <<4038, 4038>>,
      <<4141, 4144>>, <<4146, 4151>>, <<4153, 4154>>, <<4157, 4158>>,
      <<4184, 4185>>, <<4190, 4192>>, <<4209, 4212>>, <<4226, 4226>>,
      <<4229, 4230>>, <<4237, 4237>>, <<4253, 4253>>, <<4348, 4348>>,
      <<4957, 4959>>, <<5906, 5908>>, <<5938, 5939>>, <<5970, 5971>>,
      <<6002, 6003>>, <<6068, 6069>>, <<6071, 6077>>, <<6086, 6086>>,
      <<6089, 6099>>, <<6103, 6103>>, <<6109, 6109>>, <<6155, 6159>>,
      <<6211, 6211>>, <<6277, 6278>>, <<6313, 6313>>, <<6432, 6434>>,
      <<6439, 6440>>, <<6450, 6450>>, <<6457, 6459>>, <<6679, 6680>>,
      <<6683, 6683>>, <<6742, 6742>>, <<6744, 6750>>, <<6752, 6752>>,
      <<6754, 6754>>, <<6757, 6764>>, <<6771, 6780>>, <<6783, 6783>>,
      <<6823, 6823>>, <<6832, 6862>>, <<6912, 6915>>, <<6964, 6964>>,
      <<6966, 6970>>, <<6972, 6972>>, <<6978, 6978>>, <<7019, 7027>>,
      <<7040, 7041>>, <<7074, 7077>>, <<7080, 7081>>, <<7083, 7085>>,
      <<7142, 7142>>, <<7144, 7145>>, <<7149, 7149>>, <<7151, 7153>>,
      <<7212, 7219>>, <<7222, 7223>>, <<7288, 7293>>, <<7376, 7378>>,
      <<7380, 7392>>, <<7394, 7400>>, <<7405, 7405>>, <<7412, 7412>>,
      <<7416, 7417>>, <<7468, 7530>>, <<7544, 7544>>, <<7579, 7679>>,
      <<8125, 8125>>, <<8127, 8129>>, <<8141, 8143>>, <<8157, 8159>>,
      <<8173, 8175>>, <<8189, 8190>>, <<8203, 8207>>, <<8216, 8217>>,
      <<8228, 8228>>, <<8231, 8231>>, <<8234, 8238>>, <<8288, 8292>>,
      <<8294, 8303>>, <<8305, 8305>>, <<8319, 8319>>, <<8336, 8348>>,
      <<8400, 8432>>, <<11388, 11389>>, <<11503, 11505>>, <<11631, 11631>>,
      <<11647, 11647>>, <<11744, 11775>>, <<11823, 11823>>, <<12293, 12293>>,
      <<12330, 12333>>, <<12337, 12341>>, <<12347, 12347>>, <<12441, 12446>>,
      <<12540, 12542>>, <<40981, 40981>>, <<42232, 42237>>, <<42508, 42508>>,
      <<42607, 42610>>, <<42612, 42621>>, <<42623, 42623>>, <<42652, 42655>>,
      <<42736, 42737>>, <<42752, 42785>>, <<42864, 42864>>, <<42888, 42890>>,
      <<42994, 42996>>, <<43000, 43001>>, <<43010, 43010>>, <<43014, 43014>>,
      <<43019, 43019>>, <<43045, 43046>>, <<43052, 43052>>, <<43204, 43205>>,
      <<43232, 43249>>, <<43263, 43263>>, <<43302, 43309>>, <<43335, 43345>>,
      <<43392, 43394>>, <<43443, 43443>>, <<43446, 43449>>, <<43452, 43453>>,
      <<43471, 43471>>, <<43493, 43494>>, <<43561, 43566>>, <<43569, 43570>>,
      <<43573, 43574>>, <<43587, 43587>>, <<43596, 43596>>, <<43632, 43632>>,
      <<43644, 43644>>, <<43696, 43696>>, <<43698, 43700>>, <<43703, 43704>>,
      <<43710, 43711>>, <<43713, 43713>>, <<43741, 43741>>, <<43756, 43757>>,
      <<43763, 43764>>, <<43766, 43766>>, <<43867, 43871>>, <<43881, 43883>>,
      <<44005, 44005>>, <<44008, 44008>>, <<44013, 44013>>, <<64286, 64286>>,
      <<64434, 64450>>, <<65024, 65039>>, <<65043, 65043>>, <<65056, 65071>>,
      <<65106, 65106>>, <<65109, 65109>>, <<65279, 65279>>, <<65287, 65287>>,
      <<65294, 65294>>, <<65306, 65306>>, <<65342, 65342>>, <<65344, 65344>>,
      <<65392, 65392>>, <<65438, 65439>>, <<65507, 65507>>, <<65529, 65531>>,
      <<66045, 66045>>, <<66272, 66272>>, <<66422, 66426>>, <<67456, 67461>>,
      <<67463, 67504>>, <<67506, 67514>>, <<68097, 68099>>, <<68101, 68102>>,
      <<68108, 68111>>, <<68152, 68154>>, <<68159, 68159>>, <<68325, 68326>>,
      <<68900, 68903>>, <<69291, 69292>>, <<69446, 69456>>, <<69506, 69509>>,
      <<69633, 69633>>, <<69688, 69702>>, <<69744, 69744>>, <<69747, 69748>>,
      <<69759, 69761>>, <<69811, 69814>>, <<69817, 69818>>, <<69821, 69821>>,
      <<69826, 69826>>, <<69837, 69837>>, <<69888, 69890>>, <<69927, 69931>>,
      <<69933, 69940>>, <<70003, 70003>>, <<70016, 70017>>, <<70070, 70078>>,
      <<70089, 70092>>, <<70095, 70095>>, <<70191, 70193>>, <<70196, 70196>>,
      <<70198, 70199>>, <<70206, 70206>>, <<70367, 70367>>, <<70371, 70378>>,
      <<70400, 70401>>, <<70459, 70460>>, <<70464, 70464>>, <<70502, 70508>>,
      <<70512, 70516>>, <<70712, 70719>>, <<70722, 70724>>, <<70726, 70726>>,
      <<70750, 70750>>, <<70835, 70840>>, <<70842, 70842>>, <<70847, 70848>>,
      <<70850, 70851>>, <<71090, 71093>>, <<71100, 71101>>, <<71103, 71104>>,
      <<71132, 71133>>, <<71219, 71226>>, <<71229, 71229>>, <<71231, 71232>>,
      <<71339, 71339>>, <<71341, 71341>>, <<71344, 71349>>, <<71351, 71351>>,
      <<71453, 71455>>, <<71458, 71461>>, <<71463, 71467>>, <<71727, 71735>>,
      <<71737, 71738>>, <<71995, 71996>>, <<71998, 71998>>, <<72003, 72003>>,
      <<72148, 72151>>, <<72154, 72155>>, <<72160, 72160>>, <<72193, 72202>>,
      <<72243, 72248>>, <<72251, 72254>>, <<72263, 72263>>, <<72273, 72278>>,
      <<72281, 72283>>, <<72330, 72342>>, <<72344, 72345>>, <<72752, 72758>>,
      <<72760, 72765>>, <<72767, 72767>>, <<72850, 72871>>, <<72874, 72880>>,
      <<72882, 72883>>, <<72885, 72886>>, <<73009, 73014>>, <<73018, 73018>>,
      <<73020, 73021>>, <<73023, 73029>>, <<73031, 73031>>, <<73104, 73105>>,
      <<73109, 73109>>, <<73111, 73111>>, <<73459, 73460>>, <<78896, 78904>>,
      <<92912, 92916>>, <<92976, 92982>>, <<92992, 92995>>, <<94031, 94031>>,
      <<94095, 94111>>, <<94176, 94177>>, <<94179, 94180>>, <<110576, 110579>>,
      <<110581, 110587>>, <<110589, 110590>>, <<113821, 113822>>,
      <<113824, 113827>>, <<118528, 118573>>, <<118576, 118598>>,
      <<119143, 119145>>, <<119155, 119170>>, <<119173, 119179>>,
      <<119210, 119213>>, <<119362, 119364>>, <<121344, 121398>>,
      <<121403, 121452>>, <<121461, 121461>>, <<121476, 121476>>,
      <<121499, 121503>>, <<121505, 121519>>, <<122880, 122886>>,
      <<122888, 122904>>, <<122907, 122913>>, <<122915, 122916>>,
      <<122918, 122922>>, <<123184, 123197>>, <<123566, 123566>>,
      <<123628, 123631>>, <<125136, 125142>>, <<125252, 125259>>,
      <<127995, 127999>>, <<917505, 917505>>, <<917536, 917631>>,
      <<917760, 917999>> }

CaseIgnorable == CharsOf(CaseIgnorableRanges)

\* Final_Sigma: the capital sigma of index k follows a cased character and
\* is followed by none, case-ignorable characters skipped on both sides
FinalSigma(text, k) ==
    LET before == {j \in 1..(k - 1) : text[j] \notin CaseIgnorable}
        after  == {j \in (k + 1)..Len(text) : text[j] \notin CaseIgnorable}
    IN  /\ before # {}
        /\ text[CHOOSE j \in before : \A x \in before : x <= j] \in Cased
        /\ \/ after = {}
           \/ text[CHOOSE j \in after : \A x \in after : j <= x] \notin Cased

\* text.lower(): U+03A3 gives U+03C2 where it is final and U+03C3 elsewhere
Lower(text) ==
    Flatten([k \in 1..Len(text) |->
                IF text[k] = Chr(931)
                THEN <<Chr(IF FinalSigma(text, k) THEN 962 ELSE 963)>>
                ELSE ToLowerChar(text[k])])

MinSet(S) == CHOOSE x \in S : \A y \in S : x <= y
MaxSet(S) == CHOOSE x \in S : \A y \in S : x >= y

\* first index k >= i with s[k] \notin Cls; Len(s) + 1 when there is none
RunEnd(s, i, Cls) ==
    LET stops == {k \in i..Len(s) : s[k] \notin Cls}
    IN  IF stops = {} THEN Len(s) + 1 ELSE MinSet(stops)

\* first index k >= i with s[k] \in Cls; Len(s) + 1 when there is none
FindIn(s, Cls, i) ==
    LET hits == {k \in i..Len(s) : s[k] \in Cls}
    IN  IF hits = {} THEN Len(s) + 1 ELSE MinSet(hits)

\* rawdata.find(ch, i); Len(s) + 1 when absent
Find(s, ch, i) == FindIn(s, {ch}, i)

\* str.strip()
LStrip(s) == SubSeq(s, RunEnd(s, 1, SpaceChars), Len(s))
RStrip(s) ==
    LET last == {k \in 1..Len(s) : /\ s[k] \notin SpaceChars
                                   /\ \A j \in (k + 1)..Len(s) : s[j] \in SpaceChars}
    IN  IF last = {} THEN <<>> ELSE SubSeq(s, 1, CHOOSE k \in last : TRUE)
Strip(s) == RStrip(LStrip(s))

----------------------------------------------------------------------------
(* strip_html, merge_dataset.py:77-82.                                      *)
(*                                                                          *)
(* BeautifulSoup(text, "html.parser") drives CPython's html.parser          *)
(* (goahead, run by feed() and then by close(), convert_charrefs = False):  *)
(* start tags with their attributes, end tags, comments, declarations,      *)
(* marked sections and processing instructions are markup, the content of   *)
(* <script> and <style> is read in cdata mode, character and entity         *)
(* references are character data.  The handlers of bs4 build the strings    *)
(* of the tree, and get_text(separator=" ") joins with one space those      *)
(* that are text of the document.  A marked section the parser does not     *)
(* know ends the call with ParserRejectedMarkup, a decimal character        *)
(* reference of more than MaxIntDigits digits with ValueError.              *)

\* html.entities.html5: every name, with its ";" when it has one, and the
\* code points of the characters it stands for
Html5Table ==
    { <<"AElig", <<198>>>>, <<"AElig;", <<198>>>>, <<"AMP", <<38>>>>,
      <<"AMP;", <<38>>>>, <<"Aacute", <<193>>>>, <<"Aacute;", <<193>>>>,
      <<"Abreve;", <<258>>>>, <<"Acirc", <<194>>>>, <<"Acirc;", <<194>>>>,
      <<"Acy;", <<1040>>>>, <<"Afr;", <<120068>>>>, <<"Agrave", <<192>>>>,
      <<"Agrave;", <<192>>>>, <<"Alpha;", <<913>>>>, <<"Amacr;", <<256>>>>,
      <<"And;", <<10835>>>>, <<"Aogon;", <<260>>>>, <<"Aopf;", <<120120>>>>,
      <<"ApplyFunction;", <<8289>>>>, <<"Aring", <<197>>>>,
      <<"Aring;", <<197>>>>, <<"Ascr;", <<119964>>>>, <<"Assign;", <<8788>>>>,
      <<"Atilde", <<195>>>>, <<"Atilde;", <<195>>>>, <<"Auml", <<196>>>>,
      <<"Auml;", <<196>>>>, <<"Backslash;", <<8726>>>>, <<"Barv;", <<10983>>>>,
      <<"Barwed;", <<8966>>>>, <<"Bcy;", <<1041>>>>, <<"Because;", <<8757>>>>,
      <<"Bernoullis;", <<8492>>>>, <<"Beta;", <<914>>>>,
      <<"Bfr;", <<120069>>>>, <<"Bopf;", <<120121>>>>, <<"Breve;", <<728>>>>,
      <<"Bscr;", <<8492>>>>, <<"Bumpeq;", <<8782>>>>, <<"CHcy;", <<1063>>>>,
      <<"COPY", <<169>>>>, <<"COPY;", <<169>>>>, <<"Cacute;", <<262>>>>,
      <<"Cap;", <<8914>>>>, <<"CapitalDifferentialD;", <<8517>>>>,
      <<"Cayleys;", <<8493>>>>, <<"Ccaron;", <<268>>>>, <<"Ccedil", <<199>>>>,
      <<"Ccedil;", <<199>>>>, <<"Ccirc;", <<264>>>>, <<"Cconint;", <<8752>>>>,
      <<"Cdot;", <<266>>>>, <<"Cedilla;", <<184>>>>, <<"CenterDot;", <<183>>>>,
      <<"Cfr;", <<8493>>>>, <<"Chi;", <<935>>>>, <<"CircleDot;", <<8857>>>>,
      <<"CircleMinus;", <<8854>>>>, <<"CirclePlus;", <<8853>>>>,
      <<"CircleTimes;", <<8855>>>>, <<"ClockwiseContourIntegral;", <<8754>>>>,
      <<"CloseCurlyDoubleQuote;", <<8221>>>>, <<"CloseCurlyQuote;", <<8217>>>>,
      <<"Colon;", <<8759>>>>, <<"Colone;", <<10868>>>>,
      <<"Congruent;", <<8801>>>>, <<"Conint;", <<8751>>>>,
      <<"ContourIntegral;", <<8750>>>>, <<"Copf;", <<8450>>>>,
      <<"Coproduct;", <<8720>>>>,
      <<"CounterClockwiseContourIntegral;", <<8755>>>>,
      <<"Cross;", <<10799>>>>, <<"Cscr;", <<119966>>>>, <<"Cup;", <<8915>>>>,
      <<"CupCap;", <<8781>>>>, <<"DD;", <<8517>>>>, <<"DDotrahd;", <<10513>>>>,
      <<"DJcy;", <<1026>>>>, <<"DScy;", <<1029>>>>, <<"DZcy;", <<1039>>>>,
      <<"Dagger;", <<8225>>>>, <<"Darr;", <<8609>>>>, <<"Dashv;", <<10980>>>>,
      <<"Dcaron;", <<270>>>>, <<"Dcy;", <<1044>>>>, <<"Del;", <<8711>>>>,
      <<"Delta;", <<916>>>>, <<"Dfr;", <<120071>>>>,
      <<"DiacriticalAcute;", <<180>>>>, <<"DiacriticalDot;", <<729>>>>,
      <<"DiacriticalDoubleAcute;", <<733>>>>, <<"DiacriticalGrave;", <<96>>>>,
      <<"DiacriticalTilde;", <<732>>>>, <<"Diamond;", <<8900>>>>,
      <<"DifferentialD;", <<8518>>>>, <<"Dopf;", <<120123>>>>,
      <<"Dot;", <<168>>>>, <<"DotDot;", <<8412>>>>, <<"DotEqual;", <<8784>>>>,
      <<"DoubleContourIntegral;", <<8751>>>>, <<"DoubleDot;", <<168>>>>,
      <<"DoubleDownArrow;", <<8659>>>>, <<"DoubleLeftArrow;", <<8656>>>>,
      <<"DoubleLeftRightArrow;", <<8660>>>>, <<"DoubleLeftTee;", <<10980>>>>,
      <<"DoubleLongLeftArrow;", <<10232>>>>,
      <<"DoubleLongLeftRightArrow;", <<10234>>>>,
      <<"DoubleLongRightArrow;", <<10233>>>>,
      <<"DoubleRightArrow;", <<8658>>>>, <<"DoubleRightTee;", <<8872>>>>,
      <<"DoubleUpArrow;", <<8657>>>>, <<"DoubleUpDownArrow;", <<8661>>>>,
      <<"DoubleVerticalBar;", <<8741>>>>, <<"DownArrow;", <<8595>>>>,
      <<"DownArrowBar;", <<10515>>>>, <<"DownArrowUpArrow;", <<8693>>>>,
      <<"DownBreve;", <<785>>>>, <<"DownLeftRightVector;", <<10576>>>>,
      <<"DownLeftTeeVector;", <<10590>>>>, <<"DownLeftVector;", <<8637>>>>,
      <<"DownLeftVectorBar;", <<10582>>>>,
      <<"DownRightTeeVector;", <<10591>>>>, <<"DownRightVector;", <<8641>>>>,
      <<"DownRightVectorBar;", <<10583>>>>, <<"DownTee;", <<8868>>>>,
      <<"DownTeeArrow;", <<8615>>>>, <<"Downarrow;", <<8659>>>>,
      <<"Dscr;", <<119967>>>>, <<"Dstrok;", <<272>>>>, <<"ENG;", <<330>>>>,
      <<"ETH", <<208>>>>, <<"ETH;", <<208>>>>, <<"Eacute", <<201>>>>,
      <<"Eacute;", <<201>>>>, <<"Ecaron;", <<282>>>>, <<"Ecirc", <<202>>>>,
      <<"Ecirc;", <<202>>>>, <<"Ecy;", <<1069>>>>, <<"Edot;", <<278>>>>,
      <<"Efr;", <<120072>>>>, <<"Egrave", <<200>>>>, <<"Egrave;", <<200>>>>,
      <<"Element;", <<8712>>>>, <<"Emacr;", <<274>>>>,
      <<"EmptySmallSquare;", <<9723>>>>, <<"EmptyVerySmallSquare;", <<9643>>>>,
      <<"Eogon;", <<280>>>>, <<"Eopf;", <<120124>>>>, <<"Epsilon;", <<917>>>>,
      <<"Equal;", <<10869>>>>, <<"EqualTilde;", <<8770>>>>,
      <<"Equilibrium;", <<8652>>>>, <<"Escr;", <<8496>>>>,
      <<"Esim;", <<10867>>>>, <<"Eta;", <<919>>>>, <<"Euml", <<203>>>>,
      <<"Euml;", <<203>>>>, <<"Exists;", <<8707>>>>,
      <<"ExponentialE;", <<8519>>>>, <<"Fcy;", <<1060>>>>,
      <<"Ffr;", <<120073>>>>, <<"FilledSmallSquare;", <<9724>>>>,
      <<"FilledVerySmallSquare;", <<9642>>>>, <<"Fopf;", <<120125>>>>,
      <<"ForAll;", <<8704>>>>, <<"Fouriertrf;", <<8497>>>>,
      <<"Fscr;", <<8497>>>>, <<"GJcy;", <<1027>>>>, <<"GT", <<62>>>>,
      <<"GT;", <<62>>>>, <<"Gamma;", <<915>>>>, <<"Gammad;", <<988>>>>,
      <<"Gbreve;", <<286>>>>, <<"Gcedil;", <<290>>>>, <<"Gcirc;", <<284>>>>,
      <<"Gcy;", <<1043>>>>, <<"Gdot;", <<288>>>>, <<"Gfr;", <<120074>>>>,
      <<"Gg;", <<8921>>>>, <<"Gopf;", <<120126>>>>,
      <<"GreaterEqual;", <<8805>>>>, <<"GreaterEqualLess;", <<8923>>>>,
      <<"GreaterFullEqual;", <<8807>>>>, <<"GreaterGreater;", <<10914>>>>,
      <<"GreaterLess;", <<8823>>>>, <<"GreaterSlantEqual;", <<10878>>>>,
      <<"GreaterTilde;", <<8819>>>>, <<"Gscr;", <<119970>>>>,
      <<"Gt;", <<8811>>>>, <<"HARDcy;", <<1066>>>>, <<"Hacek;", <<711>>>>,
      <<"Hat;", <<94>>>>, <<"Hcirc;", <<292>>>>, <<"Hfr;", <<8460>>>>,
      <<"HilbertSpace;", <<8459>>>>, <<"Hopf;", <<8461>>>>,
      <<"HorizontalLine;", <<9472>>>>, <<"Hscr;", <<8459>>>>,
      <<"Hstrok;", <<294>>>>, <<"HumpDownHump;", <<8782>>>>,
      <<"HumpEqual;", <<8783>>>>, <<"IEcy;", <<1045>>>>, <<"IJlig;", <<306>>>>,
      <<"IOcy;", <<1025>>>>, <<"Iacute", <<205>>>>, <<"Iacute;", <<205>>>>,
      <<"Icirc", <<206>>>>, <<"Icirc;", <<206>>>>, <<"Icy;", <<1048>>>>,
      <<"Idot;", <<304>>>>, <<"Ifr;", <<8465>>>>, <<"Igrave", <<204>>>>,
      <<"Igrave;", <<204>>>>, <<"Im;", <<8465>>>>, <<"Imacr;", <<298>>>>,
      <<"ImaginaryI;", <<8520>>>>, <<"Implies;", <<8658>>>>,
      <<"Int;", <<8748>>>>, <<"Integral;", <<8747>>>>,
      <<"Intersection;", <<8898>>>>, <<"InvisibleComma;", <<8291>>>>,
      <<"InvisibleTimes;", <<8290>>>>, <<"Iogon;", <<302>>>>,
      <<"Iopf;", <<120128>>>>, <<"Iota;", <<921>>>>, <<"Iscr;", <<8464>>>>,
      <<"Itilde;", <<296>>>>, <<"Iukcy;", <<1030>>>>, <<"Iuml", <<207>>>>,
      <<"Iuml;", <<207>>>>, <<"Jcirc;", <<308>>>>, <<"Jcy;", <<1049>>>>,
      <<"Jfr;", <<120077>>>>, <<"Jopf;", <<120129>>>>, <<"Jscr;", <<119973>>>>,
      <<"Jsercy;", <<1032>>>>, <<"Jukcy;", <<1028>>>>, <<"KHcy;", <<1061>>>>,
      <<"KJcy;", <<1036>>>>, <<"Kappa;", <<922>>>>, <<"Kcedil;", <<310>>>>,
      <<"Kcy;", <<1050>>>>, <<"Kfr;", <<120078>>>>, <<"Kopf;", <<120130>>>>,
      <<"Kscr;", <<119974>>>>, <<"LJcy;", <<1033>>>>, <<"LT", <<60>>>>,
      <<"LT;", <<60>>>>, <<"Lacute;", <<313>>>>, <<"Lambda;", <<923>>>>,
      <<"Lang;", <<10218>>>>, <<"Laplacetrf;", <<8466>>>>,
      <<"Larr;", <<8606>>>>, <<"Lcaron;", <<317>>>>, <<"Lcedil;", <<315>>>>,
      <<"Lcy;", <<1051>>>>, <<"LeftAngleBracket;", <<10216>>>>,
      <<"LeftArrow;", <<8592>>>>, <<"LeftArrowBar;", <<8676>>>>,
      <<"LeftArrowRightArrow;", <<8646>>>>, <<"LeftCeiling;", <<8968>>>>,
      <<"LeftDoubleBracket;", <<10214>>>>, <<"LeftDownTeeVector;", <<10593>>>>,
      <<"LeftDownVector;", <<8643>>>>, <<"LeftDownVectorBar;", <<10585>>>>,
      <<"LeftFloor;", <<8970>>>>, <<"LeftRightArrow;", <<8596>>>>,
      <<"LeftRightVector;", <<10574>>>>, <<"LeftTee;", <<8867>>>>,
      <<"LeftTeeArrow;", <<8612>>>>, <<"LeftTeeVector;", <<10586>>>>,
      <<"LeftTriangle;", <<8882>>>>, <<"LeftTriangleBar;", <<10703>>>>,
      <<"LeftTriangleEqual;", <<8884>>>>, <<"LeftUpDownVector;", <<10577>>>>,
      <<"LeftUpTeeVector;", <<10592>>>>, <<"LeftUpVector;", <<8639>>>>,
      <<"LeftUpVectorBar;", <<10584>>>>, <<"LeftVector;", <<8636>>>>,
      <<"LeftVectorBar;", <<10578>>>>, <<"Leftarrow;", <<8656>>>>,
      <<"Leftrightarrow;", <<8660>>>>, <<"LessEqualGreater;", <<8922>>>>,
      <<"LessFullEqual;", <<8806>>>>, <<"LessGreater;", <<8822>>>>,
      <<"LessLess;", <<10913>>>>, <<"LessSlantEqual;", <<10877>>>>,
      <<"LessTilde;", <<8818>>>>, <<"Lfr;", <<120079>>>>, <<"Ll;", <<8920>>>>,
      <<"Lleftarrow;", <<8666>>>>, <<"Lmidot;", <<319>>>>,
      <<"LongLeftArrow;", <<10229>>>>, <<"LongLeftRightArrow;", <<10231>>>>,
      <<"LongRightArrow;", <<10230>>>>, <<"Longleftarrow;", <<10232>>>>,
      <<"Longleftrightarrow;", <<10234>>>>, <<"Longrightarrow;", <<10233>>>>,
      <<"Lopf;", <<120131>>>>, <<"LowerLeftArrow;", <<8601>>>>,
      <<"LowerRightArrow;", <<8600>>>>, <<"Lscr;", <<8466>>>>,
      <<"Lsh;", <<8624>>>>, <<"Lstrok;", <<321>>>>, <<"Lt;", <<8810>>>>,
      <<"Map;", <<10501>>>>, <<"Mcy;", <<1052>>>>,
      <<"MediumSpace;", <<8287>>>>, <<"Mellintrf;", <<8499>>>>,
      <<"Mfr;", <<120080>>>>, <<"MinusPlus;", <<8723>>>>,
      <<"Mopf;", <<120132>>>>, <<"Mscr;", <<8499>>>>, <<"Mu;", <<924>>>>,
      <<"NJcy;", <<1034>>>>, <<"Nacute;", <<323>>>>, <<"Ncaron;", <<327>>>>,
      <<"Ncedil;", <<325>>>>, <<"Ncy;", <<1053>>>>,
      <<"NegativeMediumSpace;", <<8203>>>>,
      <<"NegativeThickSpace;", <<8203>>>>, <<"NegativeThinSpace;", <<8203>>>>,
      <<"NegativeVeryThinSpace;", <<8203>>>>,
      <<"NestedGreaterGreater;", <<8811>>>>, <<"NestedLessLess;", <<8810>>>>,
      <<"NewLine;", <<10>>>>, <<"Nfr;", <<120081>>>>, <<"NoBreak;", <<8288>>>>,
      <<"NonBreakingSpace;", <<160>>>>, <<"Nopf;", <<8469>>>>,
      <<"Not;", <<10988>>>>, <<"NotCongruent;", <<8802>>>>,
      <<"NotCupCap;", <<8813>>>>, <<"NotDoubleVerticalBar;", <<8742>>>>,
      <<"NotElement;", <<8713>>>>, <<"NotEqual;", <<8800>>>>,
      <<"NotEqualTilde;", <<8770, 824>>>>, <<"NotExists;", <<8708>>>>,
      <<"NotGreater;", <<8815>>>>, <<"NotGreaterEqual;", <<8817>>>>,
      <<"NotGreaterFullEqual;", <<8807, 824>>>>,
      <<"NotGreaterGreater;", <<8811, 824>>>>, <<"NotGreaterLess;", <<8825>>>>,
      <<"NotGreaterSlantEqual;", <<10878, 824>>>>,
      <<"NotGreaterTilde;", <<8821>>>>, <<"NotHumpDownHump;", <<8782, 824>>>>,
      <<"NotHumpEqual;", <<8783, 824>>>>, <<"NotLeftTriangle;", <<8938>>>>,
      <<"NotLeftTriangleBar;", <<10703, 824>>>>,
      <<"NotLeftTriangleEqual;", <<8940>>>>, <<"NotLess;", <<8814>>>>,
      <<"NotLessEqual;", <<8816>>>>, <<"NotLessGreater;", <<8824>>>>,
      <<"NotLessLess;", <<8810, 824>>>>,
      <<"NotLessSlantEqual;", <<10877, 824>>>>, <<"NotLessTilde;", <<8820>>>>,
      <<"NotNestedGreaterGreater;", <<10914, 824>>>>,
      <<"NotNestedLessLess;", <<10913, 824>>>>, <<"NotPrecedes;", <<8832>>>>,
      <<"NotPrecedesEqual;", <<10927, 824>>>>,
      <<"NotPrecedesSlantEqual;", <<8928>>>>,
      <<"NotReverseElement;", <<8716>>>>, <<"NotRightTriangle;", <<8939>>>>,
      <<"NotRightTriangleBar;", <<10704, 824>>>>,
      <<"NotRightTriangleEqual;", <<8941>>>>,
      <<"NotSquareSubset;", <<8847, 824>>>>,
      <<"NotSquareSubsetEqual;", <<8930>>>>,
      <<"NotSquareSuperset;", <<8848, 824>>>>,
      <<"NotSquareSupersetEqual;", <<8931>>>>,
      <<"NotSubset;", <<8834, 8402>>>>, <<"NotSubsetEqual;", <<8840>>>>,
      <<"NotSucceeds;", <<8833>>>>, <<"NotSucceedsEqual;", <<10928, 824>>>>,
      <<"NotSucceedsSlantEqual;", <<8929>>>>,
      <<"NotSucceedsTilde;", <<8831, 824>>>>,
      <<"NotSuperset;", <<8835, 8402>>>>, <<"NotSupersetEqual;", <<8841>>>>,
      <<"NotTilde;", <<8769>>>>, <<"NotTildeEqual;", <<8772>>>>,
      <<"NotTildeFullEqual;", <<8775>>>>, <<"NotTildeTilde;", <<8777>>>>,
      <<"NotVerticalBar;", <<8740>>>>, <<"Nscr;", <<119977>>>>,
      <<"Ntilde", <<209>>>>, <<"Ntilde;", <<209>>>>, <<"Nu;", <<925>>>>,
      <<"OElig;", <<338>>>>, <<"Oacute", <<211>>>>, <<"Oacute;", <<211>>>>,
      <<"Ocirc", <<212>>>>, <<"Ocirc;", <<212>>>>, <<"Ocy;", <<1054>>>>,
      <<"Odblac;", <<336>>>>, <<"Ofr;", <<120082>>>>, <<"Ograve", <<210>>>>,
      <<"Ograve;", <<210>>>>, <<"Omacr;", <<332>>>>, <<"Omega;", <<937>>>>,
      <<"Omicron;", <<927>>>>, <<"Oopf;", <<120134>>>>,
      <<"OpenCurlyDoubleQuote;", <<8220>>>>, <<"OpenCurlyQuote;", <<8216>>>>,
      <<"Or;", <<10836>>>>, <<"Oscr;", <<119978>>>>, <<"Oslash", <<216>>>>,
      <<"Oslash;", <<216>>>>, <<"Otilde", <<213>>>>, <<"Otilde;", <<213>>>>,
      <<"Otimes;", <<10807>>>>, <<"Ouml", <<214>>>>, <<"Ouml;", <<214>>>>,
      <<"OverBar;", <<8254>>>>, <<"OverBrace;", <<9182>>>>,
      <<"OverBracket;", <<9140>>>>, <<"OverParenthesis;", <<9180>>>>,
      <<"PartialD;", <<8706>>>>, <<"Pcy;", <<1055>>>>, <<"Pfr;", <<120083>>>>,
      <<"Phi;", <<934>>>>, <<"Pi;", <<928>>>>, <<"PlusMinus;", <<177>>>>,
      <<"Poincareplane;", <<8460>>>>, <<"Popf;", <<8473>>>>,
      <<"Pr;", <<10939>>>>, <<"Precedes;", <<8826>>>>,
      <<"PrecedesEqual;", <<10927>>>>, <<"PrecedesSlantEqual;", <<8828>>>>,
      <<"PrecedesTilde;", <<8830>>>>, <<"Prime;", <<8243>>>>,
      <<"Product;", <<8719>>>>, <<"Proportion;", <<8759>>>>,
      <<"Proportional;", <<8733>>>>, <<"Pscr;", <<119979>>>>,
      <<"Psi;", <<936>>>>, <<"QUOT", <<34>>>>, <<"QUOT;", <<34>>>>,
      <<"Qfr;", <<120084>>>>, <<"Qopf;", <<8474>>>>, <<"Qscr;", <<119980>>>>,
      <<"RBarr;", <<10512>>>>, <<"REG", <<174>>>>, <<"REG;", <<174>>>>,
      <<"Racute;", <<340>>>>, <<"Rang;", <<10219>>>>, <<"Rarr;", <<8608>>>>,
      <<"Rarrtl;", <<10518>>>>, <<"Rcaron;", <<344>>>>, <<"Rcedil;", <<342>>>>,
      <<"Rcy;", <<1056>>>>, <<"Re;", <<8476>>>>,
      <<"ReverseElement;", <<8715>>>>, <<"ReverseEquilibrium;", <<8651>>>>,
      <<"ReverseUpEquilibrium;", <<10607>>>>, <<"Rfr;", <<8476>>>>,
      <<"Rho;", <<929>>>>, <<"RightAngleBracket;", <<10217>>>>,
      <<"RightArrow;", <<8594>>>>, <<"RightArrowBar;", <<8677>>>>,
      <<"RightArrowLeftArrow;", <<8644>>>>, <<"RightCeiling;", <<8969>>>>,
      <<"RightDoubleBracket;", <<10215>>>>,
      <<"RightDownTeeVector;", <<10589>>>>, <<"RightDownVector;", <<8642>>>>,
      <<"RightDownVectorBar;", <<10581>>>>, <<"RightFloor;", <<8971>>>>,
      <<"RightTee;", <<8866>>>>, <<"RightTeeArrow;", <<8614>>>>,
      <<"RightTeeVector;", <<10587>>>>, <<"RightTriangle;", <<8883>>>>,
      <<"RightTriangleBar;", <<10704>>>>, <<"RightTriangleEqual;", <<8885>>>>,
      <<"RightUpDownVector;", <<10575>>>>, <<"RightUpTeeVector;", <<10588>>>>,
      <<"RightUpVector;", <<8638>>>>, <<"RightUpVectorBar;", <<10580>>>>,
      <<"RightVector;", <<8640>>>>, <<"RightVectorBar;", <<10579>>>>,
      <<"Rightarrow;", <<8658>>>>, <<"Ropf;", <<8477>>>>,
      <<"RoundImplies;", <<10608>>>>, <<"Rrightarrow;", <<8667>>>>,
      <<"Rscr;", <<8475>>>>, <<"Rsh;", <<8625>>>>,
      <<"RuleDelayed;", <<10740>>>>, <<"SHCHcy;", <<1065>>>>,
      <<"SHcy;", <<1064>>>>, <<"SOFTcy;", <<1068>>>>, <<"Sacute;", <<346>>>>,
      <<"Sc;", <<10940>>>>, <<"Scaron;", <<352>>>>, <<"Scedil;", <<350>>>>,
      <<"Scirc;", <<348>>>>, <<"Scy;", <<1057>>>>, <<"Sfr;", <<120086>>>>,
      <<"ShortDownArrow;", <<8595>>>>, <<"ShortLeftArrow;", <<8592>>>>,
      <<"ShortRightArrow;", <<8594>>>>, <<"ShortUpArrow;", <<8593>>>>,
      <<"Sigma;", <<931>>>>, <<"SmallCircle;", <<8728>>>>,
      <<"Sopf;", <<120138>>>>, <<"Sqrt;", <<8730>>>>, <<"Square;", <<9633>>>>,
      <<"SquareIntersection;", <<8851>>>>, <<"SquareSubset;", <<8847>>>>,
      <<"SquareSubsetEqual;", <<8849>>>>, <<"SquareSuperset;", <<8848>>>>,
      <<"SquareSupersetEqual;", <<8850>>>>, <<"SquareUnion;", <<8852>>>>,
      <<"Sscr;", <<119982>>>>, <<"Star;", <<8902>>>>, <<"Sub;", <<8912>>>>,
      <<"Subset;", <<8912>>>>, <<"SubsetEqual;", <<8838>>>>,
      <<"Succeeds;", <<8827>>>>, <<"SucceedsEqual;", <<10928>>>>,
      <<"SucceedsSlantEqual;", <<8829>>>>, <<"SucceedsTilde;", <<8831>>>>,
      <<"SuchThat;", <<8715>>>>, <<"Sum;", <<8721>>>>, <<"Sup;", <<8913>>>>,
      <<"Superset;", <<8835>>>>, <<"SupersetEqual;", <<8839>>>>,
      <<"Supset;", <<8913>>>>, <<"THORN", <<222>>>>, <<"THORN;", <<222>>>>,
      <<"TRADE;", <<8482>>>>, <<"TSHcy;", <<1035>>>>, <<"TScy;", <<1062>>>>,
      <<"Tab;", <<9>>>>, <<"Tau;", <<932>>>>, <<"Tcaron;", <<356>>>>,
      <<"Tcedil;", <<354>>>>, <<"Tcy;", <<1058>>>>, <<"Tfr;", <<120087>>>>,
      <<"Therefore;", <<8756>>>>, <<"Theta;", <<920>>>>,
      <<"ThickSpace;", <<8287, 8202>>>>, <<"ThinSpace;", <<8201>>>>,
      <<"Tilde;", <<8764>>>>, <<"TildeEqual;", <<8771>>>>,
      <<"TildeFullEqual;", <<8773>>>>, <<"TildeTilde;", <<8776>>>>,
      <<"Topf;", <<120139>>>>, <<"TripleDot;", <<8411>>>>,
      <<"Tscr;", <<119983>>>>, <<"Tstrok;", <<358>>>>, <<"Uacute", <<218>>>>,
      <<"Uacute;", <<218>>>>, <<"Uarr;", <<8607>>>>,
      <<"Uarrocir;", <<10569>>>>, <<"Ubrcy;", <<1038>>>>,
      <<"Ubreve;", <<364>>>>, <<"Ucirc", <<219>>>>, <<"Ucirc;", <<219>>>>,
      <<"Ucy;", <<1059>>>>, <<"Udblac;", <<368>>>>, <<"Ufr;", <<120088>>>>,
      <<"Ugrave", <<217>>>>, <<"Ugrave;", <<217>>>>, <<"Umacr;", <<362>>>>,
      <<"UnderBar;", <<95>>>>, <<"UnderBrace;", <<9183>>>>,
      <<"UnderBracket;", <<9141>>>>, <<"UnderParenthesis;", <<9181>>>>,
      <<"Union;", <<8899>>>>, <<"UnionPlus;", <<8846>>>>,
      <<"Uogon;", <<370>>>>, <<"Uopf;", <<120140>>>>, <<"UpArrow;", <<8593>>>>,
      <<"UpArrowBar;", <<10514>>>>, <<"UpArrowDownArrow;", <<8645>>>>,
      <<"UpDownArrow;", <<8597>>>>, <<"UpEquilibrium;", <<10606>>>>,
      <<"UpTee;", <<8869>>>>, <<"UpTeeArrow;", <<8613>>>>,
      <<"Uparrow;", <<8657>>>>, <<"Updownarrow;", <<8661>>>>,
      <<"UpperLeftArrow;", <<8598>>>>, <<"UpperRightArrow;", <<8599>>>>,
      <<"Upsi;", <<978>>>>, <<"Upsilon;", <<933>>>>, <<"Uring;", <<366>>>>,
      <<"Uscr;", <<119984>>>>, <<"Utilde;", <<360>>>>, <<"Uuml", <<220>>>>,
      <<"Uuml;", <<220>>>>, <<"VDash;", <<8875>>>>, <<"Vbar;", <<10987>>>>,
      <<"Vcy;", <<1042>>>>, <<"Vdash;", <<8873>>>>, <<"Vdashl;", <<10982>>>>,
      <<"Vee;", <<8897>>>>, <<"Verbar;", <<8214>>>>, <<"Vert;", <<8214>>>>,
      <<"VerticalBar;", <<8739>>>>, <<"VerticalLine;", <<124>>>>,
      <<"VerticalSeparator;", <<10072>>>>, <<"VerticalTilde;", <<8768>>>>,
      <<"VeryThinSpace;", <<8202>>>>, <<"Vfr;", <<120089>>>>,
      <<"Vopf;", <<120141>>>>, <<"Vscr;", <<119985>>>>,
      <<"Vvdash;", <<8874>>>>, <<"Wcirc;", <<372>>>>, <<"Wedge;", <<8896>>>>,
      <<"Wfr;", <<120090>>>>, <<"Wopf;", <<120142>>>>, <<"Wscr;", <<119986>>>>,
      <<"Xfr;", <<120091>>>>, <<"Xi;", <<926>>>>, <<"Xopf;", <<120143>>>>,
      <<"Xscr;", <<119987>>>>, <<"YAcy;", <<1071>>>>, <<"YIcy;", <<1031>>>>,
      <<"YUcy;", <<1070>>>>, <<"Yacute", <<221>>>>, <<"Yacute;", <<221>>>>,
      <<"Ycirc;", <<374>>>>, <<"Ycy;", <<1067>>>>, <<"Yfr;", <<120092>>>>,
      <<"Yopf;", <<120144>>>>, <<"Yscr;", <<119988>>>>, <<"Yuml;", <<376>>>>,
      <<"ZHcy;", <<1046>>>>, <<"Zacute;", <<377>>>>, <<"Zcaron;", <<381>>>>,
      <<"Zcy;", <<1047>>>>, <<"Zdot;", <<379>>>>,
      <<"ZeroWidthSpace;", <<8203>>>>, <<"Zeta;", <<918>>>>,
      <<"Zfr;", <<8488>>>>, <<"Zopf;", <<8484>>>>, <<"Zscr;", <<119989>>>>,
      <<"aacute", <<225>>>>, <<"aacute;", <<225>>>>, <<"abreve;", <<259>>>>,
      <<"ac;", <<8766>>>>, <<"acE;", <<8766, 819>>>>, <<"acd;", <<8767>>>>,
      <<"acirc", <<226>>>>, <<"acirc;", <<226>>>>, <<"acute", <<180>>>>,
      <<"acute;", <<180>>>>, <<"acy;", <<1072>>>>, <<"aelig", <<230>>>>,
      <<"aelig;", <<230>>>>, <<"af;", <<8289>>>>, <<"afr;", <<120094>>>>,
      <<"agrave", <<224>>>>, <<"agrave;", <<224>>>>, <<"alefsym;", <<8501>>>>,
      <<"aleph;", <<8501>>>>, <<"alpha;", <<945>>>>, <<"amacr;", <<257>>>>,
      <<"amalg;", <<10815>>>>, <<"amp", <<38>>>>, <<"amp;", <<38>>>>,
      <<"and;", <<8743>>>>, <<"andand;", <<10837>>>>, <<"andd;", <<10844>>>>,
      <<"andslope;", <<10840>>>>, <<"andv;", <<10842>>>>, <<"ang;", <<8736>>>>,
      <<"ange;", <<10660>>>>, <<"angle;", <<8736>>>>, <<"angmsd;", <<8737>>>>,
      <<"angmsdaa;", <<10664>>>>, <<"angmsdab;", <<10665>>>>,
      <<"angmsdac;", <<10666>>>>, <<"angmsdad;", <<10667>>>>,
      <<"angmsdae;", <<10668>>>>, <<"angmsdaf;", <<10669>>>>,
      <<"angmsdag;", <<10670>>>>, <<"angmsdah;", <<10671>>>>,
      <<"angrt;", <<8735>>>>, <<"angrtvb;", <<8894>>>>,
      <<"angrtvbd;", <<10653>>>>, <<"angsph;", <<8738>>>>,
      <<"angst;", <<197>>>>, <<"angzarr;", <<9084>>>>, <<"aogon;", <<261>>>>,
      <<"aopf;", <<120146>>>>, <<"ap;", <<8776>>>>, <<"apE;", <<10864>>>>,
      <<"apacir;", <<10863>>>>, <<"ape;", <<8778>>>>, <<"apid;", <<8779>>>>,
      <<"apos;", <<39>>>>, <<"approx;", <<8776>>>>, <<"approxeq;", <<8778>>>>,
      <<"aring", <<229>>>>, <<"aring;", <<229>>>>, <<"ascr;", <<119990>>>>,
      <<"ast;", <<42>>>>, <<"asymp;", <<8776>>>>, <<"asympeq;", <<8781>>>>,
      <<"atilde", <<227>>>>, <<"atilde;", <<227>>>>, <<"auml", <<228>>>>,
      <<"auml;", <<228>>>>, <<"awconint;", <<8755>>>>, <<"awint;", <<10769>>>>,
      <<"bNot;", <<10989>>>>, <<"backcong;", <<8780>>>>,
      <<"backepsilon;", <<1014>>>>, <<"backprime;", <<8245>>>>,
      <<"backsim;", <<8765>>>>, <<"backsimeq;", <<8909>>>>,
      <<"barvee;", <<8893>>>>, <<"barwed;", <<8965>>>>,
      <<"barwedge;", <<8965>>>>, <<"bbrk;", <<9141>>>>,
      <<"bbrktbrk;", <<9142>>>>, <<"bcong;", <<8780>>>>, <<"bcy;", <<1073>>>>,
      <<"bdquo;", <<8222>>>>, <<"becaus;", <<8757>>>>,
      <<"because;", <<8757>>>>, <<"bemptyv;", <<10672>>>>,
      <<"bepsi;", <<1014>>>>, <<"bernou;", <<8492>>>>, <<"beta;", <<946>>>>,
      <<"beth;", <<8502>>>>, <<"between;", <<8812>>>>, <<"bfr;", <<120095>>>>,
      <<"bigcap;", <<8898>>>>, <<"bigcirc;", <<9711>>>>,
      <<"bigcup;", <<8899>>>>, <<"bigodot;", <<10752>>>>,
      <<"bigoplus;", <<10753>>>>, <<"bigotimes;", <<10754>>>>,
      <<"bigsqcup;", <<10758>>>>, <<"bigstar;", <<9733>>>>,
      <<"bigtriangledown;", <<9661>>>>, <<"bigtriangleup;", <<9651>>>>,
      <<"biguplus;", <<10756>>>>, <<"bigvee;", <<8897>>>>,
      <<"bigwedge;", <<8896>>>>, <<"bkarow;", <<10509>>>>,
      <<"blacklozenge;", <<10731>>>>, <<"blacksquare;", <<9642>>>>,
      <<"blacktriangle;", <<9652>>>>, <<"blacktriangledown;", <<9662>>>>,
      <<"blacktriangleleft;", <<9666>>>>, <<"blacktriangleright;", <<9656>>>>,
      <<"blank;", <<9251>>>>, <<"blk12;", <<9618>>>>, <<"blk14;", <<9617>>>>,
      <<"blk34;", <<9619>>>>, <<"block;", <<9608>>>>, <<"bne;", <<61, 8421>>>>,
      <<"bnequiv;", <<8801, 8421>>>>, <<"bnot;", <<8976>>>>,
      <<"bopf;", <<120147>>>>, <<"bot;", <<8869>>>>, <<"bottom;", <<8869>>>>,
      <<"bowtie;", <<8904>>>>, <<"boxDL;", <<9559>>>>, <<"boxDR;", <<9556>>>>,
      <<"boxDl;", <<9558>>>>, <<"boxDr;", <<9555>>>>, <<"boxH;", <<9552>>>>,
      <<"boxHD;", <<9574>>>>, <<"boxHU;", <<9577>>>>, <<"boxHd;", <<9572>>>>,
      <<"boxHu;", <<9575>>>>, <<"boxUL;", <<9565>>>>, <<"boxUR;", <<9562>>>>,
      <<"boxUl;", <<9564>>>>, <<"boxUr;", <<9561>>>>, <<"boxV;", <<9553>>>>,
      <<"boxVH;", <<9580>>>>, <<"boxVL;", <<9571>>>>, <<"boxVR;", <<9568>>>>,
      <<"boxVh;", <<9579>>>>, <<"boxVl;", <<9570>>>>, <<"boxVr;", <<9567>>>>,
      <<"boxbox;", <<10697>>>>, <<"boxdL;", <<9557>>>>, <<"boxdR;", <<9554>>>>,
      <<"boxdl;", <<9488>>>>, <<"boxdr;", <<9484>>>>, <<"boxh;", <<9472>>>>,
      <<"boxhD;", <<9573>>>>, <<"boxhU;", <<9576>>>>, <<"boxhd;", <<9516>>>>,
      <<"boxhu;", <<9524>>>>, <<"boxminus;", <<8863>>>>,
      <<"boxplus;", <<8862>>>>, <<"boxtimes;", <<8864>>>>,
      <<"boxuL;", <<9563>>>>, <<"boxuR;", <<9560>>>>, <<"boxul;", <<9496>>>>,
      <<"boxur;", <<9492>>>>, <<"boxv;", <<9474>>>>, <<"boxvH;", <<9578>>>>,
      <<"boxvL;", <<9569>>>>, <<"boxvR;", <<9566>>>>, <<"boxvh;", <<9532>>>>,
      <<"boxvl;", <<9508>>>>, <<"boxvr;", <<9500>>>>, <<"bprime;", <<8245>>>>,
      <<"breve;", <<728>>>>, <<"brvbar", <<166>>>>, <<"brvbar;", <<166>>>>,
      <<"bscr;", <<119991>>>>, <<"bsemi;", <<8271>>>>, <<"bsim;", <<8765>>>>,
      <<"bsime;", <<8909>>>>, <<"bsol;", <<92>>>>, <<"bsolb;", <<10693>>>>,
      <<"bsolhsub;", <<10184>>>>, <<"bull;", <<8226>>>>,
      <<"bullet;", <<8226>>>>, <<"bump;", <<8782>>>>, <<"bumpE;", <<10926>>>>,
      <<"bumpe;", <<8783>>>>, <<"bumpeq;", <<8783>>>>, <<"cacute;", <<263>>>>,
      <<"cap;", <<8745>>>>, <<"capand;", <<10820>>>>,
      <<"capbrcup;", <<10825>>>>, <<"capcap;", <<10827>>>>,
      <<"capcup;", <<10823>>>>, <<"capdot;", <<10816>>>>,
      <<"caps;", <<8745, 65024>>>>, <<"caret;", <<8257>>>>,
      <<"caron;", <<711>>>>, <<"ccaps;", <<10829>>>>, <<"ccaron;", <<269>>>>,
      <<"ccedil", <<231>>>>, <<"ccedil;", <<231>>>>, <<"ccirc;", <<265>>>>,
      <<"ccups;", <<10828>>>>, <<"ccupssm;", <<10832>>>>, <<"cdot;", <<267>>>>,
      <<"cedil", <<184>>>>, <<"cedil;", <<184>>>>, <<"cemptyv;", <<10674>>>>,
      <<"cent", <<162>>>>, <<"cent;", <<162>>>>, <<"centerdot;", <<183>>>>,
      <<"cfr;", <<120096>>>>, <<"chcy;", <<1095>>>>, <<"check;", <<10003>>>>,
      <<"checkmark;", <<10003>>>>, <<"chi;", <<967>>>>, <<"cir;", <<9675>>>>,
      <<"cirE;", <<10691>>>>, <<"circ;", <<710>>>>, <<"circeq;", <<8791>>>>,
      <<"circlearrowleft;", <<8634>>>>, <<"circlearrowright;", <<8635>>>>,
      <<"circledR;", <<174>>>>, <<"circledS;", <<9416>>>>,
      <<"circledast;", <<8859>>>>, <<"circledcirc;", <<8858>>>>,
      <<"circleddash;", <<8861>>>>, <<"cire;", <<8791>>>>,
      <<"cirfnint;", <<10768>>>>, <<"cirmid;", <<10991>>>>,
      <<"cirscir;", <<10690>>>>, <<"clubs;", <<9827>>>>,
      <<"clubsuit;", <<9827>>>>, <<"colon;", <<58>>>>, <<"colone;", <<8788>>>>,
      <<"coloneq;", <<8788>>>>, <<"comma;", <<44>>>>, <<"commat;", <<64>>>>,
      <<"comp;", <<8705>>>>, <<"compfn;", <<8728>>>>,
      <<"complement;", <<8705>>>>, <<"complexes;", <<8450>>>>,
      <<"cong;", <<8773>>>>, <<"congdot;", <<10861>>>>,
      <<"conint;", <<8750>>>>, <<"copf;", <<120148>>>>,
      <<"coprod;", <<8720>>>>, <<"copy", <<169>>>>, <<"copy;", <<169>>>>,
      <<"copysr;", <<8471>>>>, <<"crarr;", <<8629>>>>, <<"cross;", <<10007>>>>,
      <<"cscr;", <<119992>>>>, <<"csub;", <<10959>>>>, <<"csube;", <<10961>>>>,
      <<"csup;", <<10960>>>>, <<"csupe;", <<10962>>>>, <<"ctdot;", <<8943>>>>,
      <<"cudarrl;", <<10552>>>>, <<"cudarrr;", <<10549>>>>,
      <<"cuepr;", <<8926>>>>, <<"cuesc;", <<8927>>>>, <<"cularr;", <<8630>>>>,
      <<"cularrp;", <<10557>>>>, <<"cup;", <<8746>>>>,
      <<"cupbrcap;", <<10824>>>>, <<"cupcap;", <<10822>>>>,
      <<"cupcup;", <<10826>>>>, <<"cupdot;", <<8845>>>>,
      <<"cupor;", <<10821>>>>, <<"cups;", <<8746, 65024>>>>,
      <<"curarr;", <<8631>>>>, <<"curarrm;", <<10556>>>>,
      <<"curlyeqprec;", <<8926>>>>, <<"curlyeqsucc;", <<8927>>>>,
      <<"curlyvee;", <<8910>>>>, <<"curlywedge;", <<8911>>>>,
      <<"curren", <<164>>>>, <<"curren;", <<164>>>>,
      <<"curvearrowleft;", <<8630>>>>, <<"curvearrowright;", <<8631>>>>,
      <<"cuvee;", <<8910>>>>, <<"cuwed;", <<8911>>>>,
      <<"cwconint;", <<8754>>>>, <<"cwint;", <<8753>>>>,
      <<"cylcty;", <<9005>>>>, <<"dArr;", <<8659>>>>, <<"dHar;", <<10597>>>>,
      <<"dagger;", <<8224>>>>, <<"daleth;", <<8504>>>>, <<"darr;", <<8595>>>>,
      <<"dash;", <<8208>>>>, <<"dashv;", <<8867>>>>, <<"dbkarow;", <<10511>>>>,
      <<"dblac;", <<733>>>>, <<"dcaron;", <<271>>>>, <<"dcy;", <<1076>>>>,
      <<"dd;", <<8518>>>>, <<"ddagger;", <<8225>>>>, <<"ddarr;", <<8650>>>>,
      <<"ddotseq;", <<10871>>>>, <<"deg", <<176>>>>, <<"deg;", <<176>>>>,
      <<"delta;", <<948>>>>, <<"demptyv;", <<10673>>>>,
      <<"dfisht;", <<10623>>>>, <<"dfr;", <<120097>>>>, <<"dharl;", <<8643>>>>,
      <<"dharr;", <<8642>>>>, <<"diam;", <<8900>>>>, <<"diamond;", <<8900>>>>,
      <<"diamondsuit;", <<9830>>>>, <<"diams;", <<9830>>>>,
      <<"die;", <<168>>>>, <<"digamma;", <<989>>>>, <<"disin;", <<8946>>>>,
      <<"div;", <<247>>>>, <<"divide", <<247>>>>, <<"divide;", <<247>>>>,
      <<"divideontimes;", <<8903>>>>, <<"divonx;", <<8903>>>>,
      <<"djcy;", <<1106>>>>, <<"dlcorn;", <<8990>>>>, <<"dlcrop;", <<8973>>>>,
      <<"dollar;", <<36>>>>, <<"dopf;", <<120149>>>>, <<"dot;", <<729>>>>,
      <<"doteq;", <<8784>>>>, <<"doteqdot;", <<8785>>>>,
      <<"dotminus;", <<8760>>>>, <<"dotplus;", <<8724>>>>,
      <<"dotsquare;", <<8865>>>>, <<"doublebarwedge;", <<8966>>>>,
      <<"downarrow;", <<8595>>>>, <<"downdownarrows;", <<8650>>>>,
      <<"downharpoonleft;", <<8643>>>>, <<"downharpoonright;", <<8642>>>>,
      <<"drbkarow;", <<10512>>>>, <<"drcorn;", <<8991>>>>,
      <<"drcrop;", <<8972>>>>, <<"dscr;", <<119993>>>>, <<"dscy;", <<1109>>>>,
      <<"dsol;", <<10742>>>>, <<"dstrok;", <<273>>>>, <<"dtdot;", <<8945>>>>,
      <<"dtri;", <<9663>>>>, <<"dtrif;", <<9662>>>>, <<"duarr;", <<8693>>>>,
      <<"duhar;", <<10607>>>>, <<"dwangle;", <<10662>>>>,
      <<"dzcy;", <<1119>>>>, <<"dzigrarr;", <<10239>>>>,
      <<"eDDot;", <<10871>>>>, <<"eDot;", <<8785>>>>, <<"eacute", <<233>>>>,
      <<"eacute;", <<233>>>>, <<"easter;", <<10862>>>>, <<"ecaron;", <<283>>>>,
      <<"ecir;", <<8790>>>>, <<"ecirc", <<234>>>>, <<"ecirc;", <<234>>>>,
      <<"ecolon;", <<8789>>>>, <<"ecy;", <<1101>>>>, <<"edot;", <<279>>>>,
      <<"ee;", <<8519>>>>, <<"efDot;", <<8786>>>>, <<"efr;", <<120098>>>>,
      <<"eg;", <<10906>>>>, <<"egrave", <<232>>>>, <<"egrave;", <<232>>>>,
      <<"egs;", <<10902>>>>, <<"egsdot;", <<10904>>>>, <<"el;", <<10905>>>>,
      <<"elinters;", <<9191>>>>, <<"ell;", <<8467>>>>, <<"els;", <<10901>>>>,
      <<"elsdot;", <<10903>>>>, <<"emacr;", <<275>>>>, <<"empty;", <<8709>>>>,
      <<"emptyset;", <<8709>>>>, <<"emptyv;", <<8709>>>>,
      <<"emsp13;", <<8196>>>>, <<"emsp14;", <<8197>>>>, <<"emsp;", <<8195>>>>,
      <<"eng;", <<331>>>>, <<"ensp;", <<8194>>>>, <<"eogon;", <<281>>>>,
      <<"eopf;", <<120150>>>>, <<"epar;", <<8917>>>>, <<"eparsl;", <<10723>>>>,
      <<"eplus;", <<10865>>>>, <<"epsi;", <<949>>>>, <<"epsilon;", <<949>>>>,
      <<"epsiv;", <<1013>>>>, <<"eqcirc;", <<8790>>>>,
      <<"eqcolon;", <<8789>>>>, <<"eqsim;", <<8770>>>>,
      <<"eqslantgtr;", <<10902>>>>, <<"eqslantless;", <<10901>>>>,
      <<"equals;", <<61>>>>, <<"equest;", <<8799>>>>, <<"equiv;", <<8801>>>>,
      <<"equivDD;", <<10872>>>>, <<"eqvparsl;", <<10725>>>>,
      <<"erDot;", <<8787>>>>, <<"erarr;", <<10609>>>>, <<"escr;", <<8495>>>>,
      <<"esdot;", <<8784>>>>, <<"esim;", <<8770>>>>, <<"eta;", <<951>>>>,
      <<"eth", <<240>>>>, <<"eth;", <<240>>>>, <<"euml", <<235>>>>,
      <<"euml;", <<235>>>>, <<"euro;", <<8364>>>>, <<"excl;", <<33>>>>,
      <<"exist;", <<8707>>>>, <<"expectation;", <<8496>>>>,
      <<"exponentiale;", <<8519>>>>, <<"fallingdotseq;", <<8786>>>>,
      <<"fcy;", <<1092>>>>, <<"female;", <<9792>>>>, <<"ffilig;", <<64259>>>>,
      <<"fflig;", <<64256>>>>, <<"ffllig;", <<64260>>>>,
      <<"ffr;", <<120099>>>>, <<"filig;", <<64257>>>>,
      <<"fjlig;", <<102, 106>>>>, <<"flat;", <<9837>>>>,
      <<"fllig;", <<64258>>>>, <<"fltns;", <<9649>>>>, <<"fnof;", <<402>>>>,
      <<"fopf;", <<120151>>>>, <<"forall;", <<8704>>>>, <<"fork;", <<8916>>>>,
      <<"forkv;", <<10969>>>>, <<"fpartint;", <<10765>>>>,
      <<"frac12", <<189>>>>, <<"frac12;", <<189>>>>, <<"frac13;", <<8531>>>>,
      <<"frac14", <<188>>>>, <<"frac14;", <<188>>>>, <<"frac15;", <<8533>>>>,
      <<"frac16;", <<8537>>>>, <<"frac18;", <<8539>>>>,
      <<"frac23;", <<8532>>>>, <<"frac25;", <<8534>>>>, <<"frac34", <<190>>>>,
      <<"frac34;", <<190>>>>, <<"frac35;", <<8535>>>>, <<"frac38;", <<8540>>>>,
      <<"frac45;", <<8536>>>>, <<"frac56;", <<8538>>>>,
      <<"frac58;", <<8541>>>>, <<"frac78;", <<8542>>>>, <<"frasl;", <<8260>>>>,
      <<"frown;", <<8994>>>>, <<"fscr;", <<119995>>>>, <<"gE;", <<8807>>>>,
      <<"gEl;", <<10892>>>>, <<"gacute;", <<501>>>>, <<"gamma;", <<947>>>>,
      <<"gammad;", <<989>>>>, <<"gap;", <<10886>>>>, <<"gbreve;", <<287>>>>,
      <<"gcirc;", <<285>>>>, <<"gcy;", <<1075>>>>, <<"gdot;", <<289>>>>,
      <<"ge;", <<8805>>>>, <<"gel;", <<8923>>>>, <<"geq;", <<8805>>>>,
      <<"geqq;", <<8807>>>>, <<"geqslant;", <<10878>>>>, <<"ges;", <<10878>>>>,
      <<"gescc;", <<10921>>>>, <<"gesdot;", <<10880>>>>,
      <<"gesdoto;", <<10882>>>>, <<"gesdotol;", <<10884>>>>,
      <<"gesl;", <<8923, 65024>>>>, <<"gesles;", <<10900>>>>,
      <<"gfr;", <<120100>>>>, <<"gg;", <<8811>>>>, <<"ggg;", <<8921>>>>,
      <<"gimel;", <<8503>>>>, <<"gjcy;", <<1107>>>>, <<"gl;", <<8823>>>>,
      <<"glE;", <<10898>>>>, <<"gla;", <<10917>>>>, <<"glj;", <<10916>>>>,
      <<"gnE;", <<8809>>>>, <<"gnap;", <<10890>>>>, <<"gnapprox;", <<10890>>>>,
      <<"gne;", <<10888>>>>, <<"gneq;", <<10888>>>>, <<"gneqq;", <<8809>>>>,
      <<"gnsim;", <<8935>>>>, <<"gopf;", <<120152>>>>, <<"grave;", <<96>>>>,
      <<"gscr;", <<8458>>>>, <<"gsim;", <<8819>>>>, <<"gsime;", <<10894>>>>,
      <<"gsiml;", <<10896>>>>, <<"gt", <<62>>>>, <<"gt;", <<62>>>>,
      <<"gtcc;", <<10919>>>>, <<"gtcir;", <<10874>>>>, <<"gtdot;", <<8919>>>>,
      <<"gtlPar;", <<10645>>>>, <<"gtquest;", <<10876>>>>,
      <<"gtrapprox;", <<10886>>>>, <<"gtrarr;", <<10616>>>>,
      <<"gtrdot;", <<8919>>>>, <<"gtreqless;", <<8923>>>>,
      <<"gtreqqless;", <<10892>>>>, <<"gtrless;", <<8823>>>>,
      <<"gtrsim;", <<8819>>>>, <<"gvertneqq;", <<8809, 65024>>>>,
      <<"gvnE;", <<8809, 65024>>>>, <<"hArr;", <<8660>>>>,
      <<"hairsp;", <<8202>>>>, <<"half;", <<189>>>>, <<"hamilt;", <<8459>>>>,
      <<"hardcy;", <<1098>>>>, <<"harr;", <<8596>>>>,
      <<"harrcir;", <<10568>>>>, <<"harrw;", <<8621>>>>, <<"hbar;", <<8463>>>>,
      <<"hcirc;", <<293>>>>, <<"hearts;", <<9829>>>>,
      <<"heartsuit;", <<9829>>>>, <<"hellip;", <<8230>>>>,
      <<"hercon;", <<8889>>>>, <<"hfr;", <<120101>>>>,
      <<"hksearow;", <<10533>>>>, <<"hkswarow;", <<10534>>>>,
      <<"hoarr;", <<8703>>>>, <<"homtht;", <<8763>>>>,
      <<"hookleftarrow;", <<8617>>>>, <<"hookrightarrow;", <<8618>>>>,
      <<"hopf;", <<120153>>>>, <<"horbar;", <<8213>>>>,
      <<"hscr;", <<119997>>>>, <<"hslash;", <<8463>>>>, <<"hstrok;", <<295>>>>,
      <<"hybull;", <<8259>>>>, <<"hyphen;", <<8208>>>>, <<"iacute", <<237>>>>,
      <<"iacute;", <<237>>>>, <<"ic;", <<8291>>>>, <<"icirc", <<238>>>>,
      <<"icirc;", <<238>>>>, <<"icy;", <<1080>>>>, <<"iecy;", <<1077>>>>,
      <<"iexcl", <<161>>>>, <<"iexcl;", <<161>>>>, <<"iff;", <<8660>>>>,
      <<"ifr;", <<120102>>>>, <<"igrave", <<236>>>>, <<"igrave;", <<236>>>>,
      <<"ii;", <<8520>>>>, <<"iiiint;", <<10764>>>>, <<"iiint;", <<8749>>>>,
      <<"iinfin;", <<10716>>>>, <<"iiota;", <<8489>>>>, <<"ijlig;", <<307>>>>,
      <<"imacr;", <<299>>>>, <<"image;", <<8465>>>>, <<"imagline;", <<8464>>>>,
      <<"imagpart;", <<8465>>>>, <<"imath;", <<305>>>>, <<"imof;", <<8887>>>>,
      <<"imped;", <<437>>>>, <<"in;", <<8712>>>>, <<"incare;", <<8453>>>>,
      <<"infin;", <<8734>>>>, <<"infintie;", <<10717>>>>,
      <<"inodot;", <<305>>>>, <<"int;", <<8747>>>>, <<"intcal;", <<8890>>>>,
      <<"integers;", <<8484>>>>, <<"intercal;", <<8890>>>>,
      <<"intlarhk;", <<10775>>>>, <<"intprod;", <<10812>>>>,
      <<"iocy;", <<1105>>>>, <<"iogon;", <<303>>>>, <<"iopf;", <<120154>>>>,
      <<"iota;", <<953>>>>, <<"iprod;", <<10812>>>>, <<"iquest", <<191>>>>,
      <<"iquest;", <<191>>>>, <<"iscr;", <<119998>>>>, <<"isin;", <<8712>>>>,
      <<"isinE;", <<8953>>>>, <<"isindot;", <<8949>>>>, <<"isins;", <<8948>>>>,
      <<"isinsv;", <<8947>>>>, <<"isinv;", <<8712>>>>, <<"it;", <<8290>>>>,
      <<"itilde;", <<297>>>>, <<"iukcy;", <<1110>>>>, <<"iuml", <<239>>>>,
      <<"iuml;", <<239>>>>, <<"jcirc;", <<309>>>>, <<"jcy;", <<1081>>>>,
      <<"jfr;", <<120103>>>>, <<"jmath;", <<567>>>>, <<"jopf;", <<120155>>>>,
      <<"jscr;", <<119999>>>>, <<"jsercy;", <<1112>>>>, <<"jukcy;", <<1108>>>>,
      <<"kappa;", <<954>>>>, <<"kappav;", <<1008>>>>, <<"kcedil;", <<311>>>>,
      <<"kcy;", <<1082>>>>, <<"kfr;", <<120104>>>>, <<"kgreen;", <<312>>>>,
      <<"khcy;", <<1093>>>>, <<"kjcy;", <<1116>>>>, <<"kopf;", <<120156>>>>,
      <<"kscr;", <<120000>>>>, <<"lAarr;", <<8666>>>>, <<"lArr;", <<8656>>>>,
      <<"lAtail;", <<10523>>>>, <<"lBarr;", <<10510>>>>, <<"lE;", <<8806>>>>,
      <<"lEg;", <<10891>>>>, <<"lHar;", <<10594>>>>, <<"lacute;", <<314>>>>,
      <<"laemptyv;", <<10676>>>>, <<"lagran;", <<8466>>>>,
      <<"lambda;", <<955>>>>, <<"lang;", <<10216>>>>, <<"langd;", <<10641>>>>,
      <<"langle;", <<10216>>>>, <<"lap;", <<10885>>>>, <<"laquo", <<171>>>>,
      <<"laquo;", <<171>>>>, <<"larr;", <<8592>>>>, <<"larrb;", <<8676>>>>,
      <<"larrbfs;", <<10527>>>>, <<"larrfs;", <<10525>>>>,
      <<"larrhk;", <<8617>>>>, <<"larrlp;", <<8619>>>>,
      <<"larrpl;", <<10553>>>>, <<"larrsim;", <<10611>>>>,
      <<"larrtl;", <<8610>>>>, <<"lat;", <<10923>>>>, <<"latail;", <<10521>>>>,
      <<"late;", <<10925>>>>, <<"lates;", <<10925, 65024>>>>,
      <<"lbarr;", <<10508>>>>, <<"lbbrk;", <<10098>>>>, <<"lbrace;", <<123>>>>,
      <<"lbrack;", <<91>>>>, <<"lbrke;", <<10635>>>>,
      <<"lbrksld;", <<10639>>>>, <<"lbrkslu;", <<10637>>>>,
      <<"lcaron;", <<318>>>>, <<"lcedil;", <<316>>>>, <<"lceil;", <<8968>>>>,
      <<"lcub;", <<123>>>>, <<"lcy;", <<1083>>>>, <<"ldca;", <<10550>>>>,
      <<"ldquo;", <<8220>>>>, <<"ldquor;", <<8222>>>>,
      <<"ldrdhar;", <<10599>>>>, <<"ldrushar;", <<10571>>>>,
      <<"ldsh;", <<8626>>>>, <<"le;", <<8804>>>>, <<"leftarrow;", <<8592>>>>,
      <<"leftarrowtail;", <<8610>>>>, <<"leftharpoondown;", <<8637>>>>,
      <<"leftharpoonup;", <<8636>>>>, <<"leftleftarrows;", <<8647>>>>,
      <<"leftrightarrow;", <<8596>>>>, <<"leftrightarrows;", <<8646>>>>,
      <<"leftrightharpoons;", <<8651>>>>, <<"leftrightsquigarrow;", <<8621>>>>,
      <<"leftthreetimes;", <<8907>>>>, <<"leg;", <<8922>>>>,
      <<"leq;", <<8804>>>>, <<"leqq;", <<8806>>>>, <<"leqslant;", <<10877>>>>,
      <<"les;", <<10877>>>>, <<"lescc;", <<10920>>>>, <<"lesdot;", <<10879>>>>,
      <<"lesdoto;", <<10881>>>>, <<"lesdotor;", <<10883>>>>,
      <<"lesg;", <<8922, 65024>>>>, <<"lesges;", <<10899>>>>,
      <<"lessapprox;", <<10885>>>>, <<"lessdot;", <<8918>>>>,
      <<"lesseqgtr;", <<8922>>>>, <<"lesseqqgtr;", <<10891>>>>,
      <<"lessgtr;", <<8822>>>>, <<"lesssim;", <<8818>>>>,
      <<"lfisht;", <<10620>>>>, <<"lfloor;", <<8970>>>>,
      <<"lfr;", <<120105>>>>, <<"lg;", <<8822>>>>, <<"lgE;", <<10897>>>>,
      <<"lhard;", <<8637>>>>, <<"lharu;", <<8636>>>>, <<"lharul;", <<10602>>>>,
      <<"lhblk;", <<9604>>>>, <<"ljcy;", <<1113>>>>, <<"ll;", <<8810>>>>,
      <<"llarr;", <<8647>>>>, <<"llcorner;", <<8990>>>>,
      <<"llhard;", <<10603>>>>, <<"lltri;", <<9722>>>>, <<"lmidot;", <<320>>>>,
      <<"lmoust;", <<9136>>>>, <<"lmoustache;", <<9136>>>>,
      <<"lnE;", <<8808>>>>, <<"lnap;", <<10889>>>>, <<"lnapprox;", <<10889>>>>,
      <<"lne;", <<10887>>>>, <<"lneq;", <<10887>>>>, <<"lneqq;", <<8808>>>>,
      <<"lnsim;", <<8934>>>>, <<"loang;", <<10220>>>>, <<"loarr;", <<8701>>>>,
      <<"lobrk;", <<10214>>>>, <<"longleftarrow;", <<10229>>>>,
      <<"longleftrightarrow;", <<10231>>>>, <<"longmapsto;", <<10236>>>>,
      <<"longrightarrow;", <<10230>>>>, <<"looparrowleft;", <<8619>>>>,
      <<"looparrowright;", <<8620>>>>, <<"lopar;", <<10629>>>>,
      <<"lopf;", <<120157>>>>, <<"loplus;", <<10797>>>>,
      <<"lotimes;", <<10804>>>>, <<"lowast;", <<8727>>>>,
      <<"lowbar;", <<95>>>>, <<"loz;", <<9674>>>>, <<"lozenge;", <<9674>>>>,
      <<"lozf;", <<10731>>>>, <<"lpar;", <<40>>>>, <<"lparlt;", <<10643>>>>,
      <<"lrarr;", <<8646>>>>, <<"lrcorner;", <<8991>>>>,
      <<"lrhar;", <<8651>>>>, <<"lrhard;", <<10605>>>>, <<"lrm;", <<8206>>>>,
      <<"lrtri;", <<8895>>>>, <<"lsaquo;", <<8249>>>>, <<"lscr;", <<120001>>>>,
      <<"lsh;", <<8624>>>>, <<"lsim;", <<8818>>>>, <<"lsime;", <<10893>>>>,
      <<"lsimg;", <<10895>>>>, <<"lsqb;", <<91>>>>, <<"lsquo;", <<8216>>>>,
      <<"lsquor;", <<8218>>>>, <<"lstrok;", <<322>>>>, <<"lt", <<60>>>>,
      <<"lt;", <<60>>>>, <<"ltcc;", <<10918>>>>, <<"ltcir;", <<10873>>>>,
      <<"ltdot;", <<8918>>>>, <<"lthree;", <<8907>>>>, <<"ltimes;", <<8905>>>>,
      <<"ltlarr;", <<10614>>>>, <<"ltquest;", <<10875>>>>,
      <<"ltrPar;", <<10646>>>>, <<"ltri;", <<9667>>>>, <<"ltrie;", <<8884>>>>,
      <<"ltrif;", <<9666>>>>, <<"lurdshar;", <<10570>>>>,
      <<"luruhar;", <<10598>>>>, <<"lvertneqq;", <<8808, 65024>>>>,
      <<"lvnE;", <<8808, 65024>>>>, <<"mDDot;", <<8762>>>>,
      <<"macr", <<175>>>>, <<"macr;", <<175>>>>, <<"male;", <<9794>>>>,
      <<"malt;", <<10016>>>>, <<"maltese;", <<10016>>>>, <<"map;", <<8614>>>>,
      <<"mapsto;", <<8614>>>>, <<"mapstodown;", <<8615>>>>,
      <<"mapstoleft;", <<8612>>>>, <<"mapstoup;", <<8613>>>>,
      <<"marker;", <<9646>>>>, <<"mcomma;", <<10793>>>>, <<"mcy;", <<1084>>>>,
      <<"mdash;", <<8212>>>>, <<"measuredangle;", <<8737>>>>,
      <<"mfr;", <<120106>>>>, <<"mho;", <<8487>>>>, <<"micro", <<181>>>>,
      <<"micro;", <<181>>>>, <<"mid;", <<8739>>>>, <<"midast;", <<42>>>>,
      <<"midcir;", <<10992>>>>, <<"middot", <<183>>>>, <<"middot;", <<183>>>>,
      <<"minus;", <<8722>>>>, <<"minusb;", <<8863>>>>, <<"minusd;", <<8760>>>>,
      <<"minusdu;", <<10794>>>>, <<"mlcp;", <<10971>>>>, <<"mldr;", <<8230>>>>,
      <<"mnplus;", <<8723>>>>, <<"models;", <<8871>>>>,
      <<"mopf;", <<120158>>>>, <<"mp;", <<8723>>>>, <<"mscr;", <<120002>>>>,
      <<"mstpos;", <<8766>>>>, <<"mu;", <<956>>>>, <<"multimap;", <<8888>>>>,
      <<"mumap;", <<8888>>>>, <<"nGg;", <<8921, 824>>>>,
      <<"nGt;", <<8811, 8402>>>>, <<"nGtv;", <<8811, 824>>>>,
      <<"nLeftarrow;", <<8653>>>>, <<"nLeftrightarrow;", <<8654>>>>,
      <<"nLl;", <<8920, 824>>>>, <<"nLt;", <<8810, 8402>>>>,
      <<"nLtv;", <<8810, 824>>>>, <<"nRightarrow;", <<8655>>>>,
      <<"nVDash;", <<8879>>>>, <<"nVdash;", <<8878>>>>, <<"nabla;", <<8711>>>>,
      <<"nacute;", <<324>>>>, <<"nang;", <<8736, 8402>>>>,
      <<"nap;", <<8777>>>>, <<"napE;", <<10864, 824>>>>,
      <<"napid;", <<8779, 824>>>>, <<"napos;", <<329>>>>,
      <<"napprox;", <<8777>>>>, <<"natur;", <<9838>>>>,
      <<"natural;", <<9838>>>>, <<"naturals;", <<8469>>>>, <<"nbsp", <<160>>>>,
      <<"nbsp;", <<160>>>>, <<"nbump;", <<8782, 824>>>>,
      <<"nbumpe;", <<8783, 824>>>>, <<"ncap;", <<10819>>>>,
      <<"ncaron;", <<328>>>>, <<"ncedil;", <<326>>>>, <<"ncong;", <<8775>>>>,
      <<"ncongdot;", <<10861, 824>>>>, <<"ncup;", <<10818>>>>,
      <<"ncy;", <<1085>>>>, <<"ndash;", <<8211>>>>, <<"ne;", <<8800>>>>,
      <<"neArr;", <<8663>>>>, <<"nearhk;", <<10532>>>>, <<"nearr;", <<8599>>>>,
      <<"nearrow;", <<8599>>>>, <<"nedot;", <<8784, 824>>>>,
      <<"nequiv;", <<8802>>>>, <<"nesear;", <<10536>>>>,
      <<"nesim;", <<8770, 824>>>>, <<"nexist;", <<8708>>>>,
      <<"nexists;", <<8708>>>>, <<"nfr;", <<120107>>>>,
      <<"ngE;", <<8807, 824>>>>, <<"nge;", <<8817>>>>, <<"ngeq;", <<8817>>>>,
      <<"ngeqq;", <<8807, 824>>>>, <<"ngeqslant;", <<10878, 824>>>>,
      <<"nges;", <<10878, 824>>>>, <<"ngsim;", <<8821>>>>,
      <<"ngt;", <<8815>>>>, <<"ngtr;", <<8815>>>>, <<"nhArr;", <<8654>>>>,
      <<"nharr;", <<8622>>>>, <<"nhpar;", <<10994>>>>, <<"ni;", <<8715>>>>,
      <<"nis;", <<8956>>>>, <<"nisd;", <<8954>>>>, <<"niv;", <<8715>>>>,
      <<"njcy;", <<1114>>>>, <<"nlArr;", <<8653>>>>, <<"nlE;", <<8806, 824>>>>,
      <<"nlarr;", <<8602>>>>, <<"nldr;", <<8229>>>>, <<"nle;", <<8816>>>>,
      <<"nleftarrow;", <<8602>>>>, <<"nleftrightarrow;", <<8622>>>>,
      <<"nleq;", <<8816>>>>, <<"nleqq;", <<8806, 824>>>>,
      <<"nleqslant;", <<10877, 824>>>>, <<"nles;", <<10877, 824>>>>,
      <<"nless;", <<8814>>>>, <<"nlsim;", <<8820>>>>, <<"nlt;", <<8814>>>>,
      <<"nltri;", <<8938>>>>, <<"nltrie;", <<8940>>>>, <<"nmid;", <<8740>>>>,
      <<"nopf;", <<120159>>>>, <<"not", <<172>>>>, <<"not;", <<172>>>>,
      <<"notin;", <<8713>>>>, <<"notinE;", <<8953, 824>>>>,
      <<"notindot;", <<8949, 824>>>>, <<"notinva;", <<8713>>>>,
      <<"notinvb;", <<8951>>>>, <<"notinvc;", <<8950>>>>,
      <<"notni;", <<8716>>>>, <<"notniva;", <<8716>>>>,
      <<"notnivb;", <<8958>>>>, <<"notnivc;", <<8957>>>>,
      <<"npar;", <<8742>>>>, <<"nparallel;", <<8742>>>>,
      <<"nparsl;", <<11005, 8421>>>>, <<"npart;", <<8706, 824>>>>,
      <<"npolint;", <<10772>>>>, <<"npr;", <<8832>>>>, <<"nprcue;", <<8928>>>>,
      <<"npre;", <<10927, 824>>>>, <<"nprec;", <<8832>>>>,
      <<"npreceq;", <<10927, 824>>>>, <<"nrArr;", <<8655>>>>,
      <<"nrarr;", <<8603>>>>, <<"nrarrc;", <<10547, 824>>>>,
      <<"nrarrw;", <<8605, 824>>>>, <<"nrightarrow;", <<8603>>>>,
      <<"nrtri;", <<8939>>>>, <<"nrtrie;", <<8941>>>>, <<"nsc;", <<8833>>>>,
      <<"nsccue;", <<8929>>>>, <<"nsce;", <<10928, 824>>>>,
      <<"nscr;", <<120003>>>>, <<"nshortmid;", <<8740>>>>,
      <<"nshortparallel;", <<8742>>>>, <<"nsim;", <<8769>>>>,
      <<"nsime;", <<8772>>>>, <<"nsimeq;", <<8772>>>>, <<"nsmid;", <<8740>>>>,
      <<"nspar;", <<8742>>>>, <<"nsqsube;", <<8930>>>>,
      <<"nsqsupe;", <<8931>>>>, <<"nsub;", <<8836>>>>,
      <<"nsubE;", <<10949, 824>>>>, <<"nsube;", <<8840>>>>,
      <<"nsubset;", <<8834, 8402>>>>, <<"nsubseteq;", <<8840>>>>,
      <<"nsubseteqq;", <<10949, 824>>>>, <<"nsucc;", <<8833>>>>,
      <<"nsucceq;", <<10928, 824>>>>, <<"nsup;", <<8837>>>>,
      <<"nsupE;", <<10950, 824>>>>, <<"nsupe;", <<8841>>>>,
      <<"nsupset;", <<8835, 8402>>>>, <<"nsupseteq;", <<8841>>>>,
      <<"nsupseteqq;", <<10950, 824>>>>, <<"ntgl;", <<8825>>>>,
      <<"ntilde", <<241>>>>, <<"ntilde;", <<241>>>>, <<"ntlg;", <<8824>>>>,
      <<"ntriangleleft;", <<8938>>>>, <<"ntrianglelefteq;", <<8940>>>>,
      <<"ntriangleright;", <<8939>>>>, <<"ntrianglerighteq;", <<8941>>>>,
      <<"nu;", <<957>>>>, <<"num;", <<35>>>>, <<"numero;", <<8470>>>>,
      <<"numsp;", <<8199>>>>, <<"nvDash;", <<8877>>>>,
      <<"nvHarr;", <<10500>>>>, <<"nvap;", <<8781, 8402>>>>,
      <<"nvdash;", <<8876>>>>, <<"nvge;", <<8805, 8402>>>>,
      <<"nvgt;", <<62, 8402>>>>, <<"nvinfin;", <<10718>>>>,
      <<"nvlArr;", <<10498>>>>, <<"nvle;", <<8804, 8402>>>>,
      <<"nvlt;", <<60, 8402>>>>, <<"nvltrie;", <<8884, 8402>>>>,
      <<"nvrArr;", <<10499>>>>, <<"nvrtrie;", <<8885, 8402>>>>,
      <<"nvsim;", <<8764, 8402>>>>, <<"nwArr;", <<8662>>>>,
      <<"nwarhk;", <<10531>>>>, <<"nwarr;", <<8598>>>>,
      <<"nwarrow;", <<8598>>>>, <<"nwnear;", <<10535>>>>, <<"oS;", <<9416>>>>,
      <<"oacute", <<243>>>>, <<"oacute;", <<243>>>>, <<"oast;", <<8859>>>>,
      <<"ocir;", <<8858>>>>, <<"ocirc", <<244>>>>, <<"ocirc;", <<244>>>>,
      <<"ocy;", <<1086>>>>, <<"odash;", <<8861>>>>, <<"odblac;", <<337>>>>,
      <<"odiv;", <<10808>>>>, <<"odot;", <<8857>>>>, <<"odsold;", <<10684>>>>,
      <<"oelig;", <<339>>>>, <<"ofcir;", <<10687>>>>, <<"ofr;", <<120108>>>>,
      <<"ogon;", <<731>>>>, <<"ograve", <<242>>>>, <<"ograve;", <<242>>>>,
      <<"ogt;", <<10689>>>>, <<"ohbar;", <<10677>>>>, <<"ohm;", <<937>>>>,
      <<"oint;", <<8750>>>>, <<"olarr;", <<8634>>>>, <<"olcir;", <<10686>>>>,
      <<"olcross;", <<10683>>>>, <<"oline;", <<8254>>>>, <<"olt;", <<10688>>>>,
      <<"omacr;", <<333>>>>, <<"omega;", <<969>>>>, <<"omicron;", <<959>>>>,
      <<"omid;", <<10678>>>>, <<"ominus;", <<8854>>>>, <<"oopf;", <<120160>>>>,
      <<"opar;", <<10679>>>>, <<"operp;", <<10681>>>>, <<"oplus;", <<8853>>>>,
      <<"or;", <<8744>>>>, <<"orarr;", <<8635>>>>, <<"ord;", <<10845>>>>,
      <<"order;", <<8500>>>>, <<"orderof;", <<8500>>>>, <<"ordf", <<170>>>>,
      <<"ordf;", <<170>>>>, <<"ordm", <<186>>>>, <<"ordm;", <<186>>>>,
      <<"origof;", <<8886>>>>, <<"oror;", <<10838>>>>,
      <<"orslope;", <<10839>>>>, <<"orv;", <<10843>>>>, <<"oscr;", <<8500>>>>,
      <<"oslash", <<248>>>>, <<"oslash;", <<248>>>>, <<"osol;", <<8856>>>>,
      <<"otilde", <<245>>>>, <<"otilde;", <<245>>>>, <<"otimes;", <<8855>>>>,
      <<"otimesas;", <<10806>>>>, <<"ouml", <<246>>>>, <<"ouml;", <<246>>>>,
      <<"ovbar;", <<9021>>>>, <<"par;", <<8741>>>>, <<"para", <<182>>>>,
      <<"para;", <<182>>>>, <<"parallel;", <<8741>>>>,
      <<"parsim;", <<10995>>>>, <<"parsl;", <<11005>>>>, <<"part;", <<8706>>>>,
      <<"pcy;", <<1087>>>>, <<"percnt;", <<37>>>>, <<"period;", <<46>>>>,
      <<"permil;", <<8240>>>>, <<"perp;", <<8869>>>>, <<"pertenk;", <<8241>>>>,
      <<"pfr;", <<120109>>>>, <<"phi;", <<966>>>>, <<"phiv;", <<981>>>>,
      <<"phmmat;", <<8499>>>>, <<"phone;", <<9742>>>>, <<"pi;", <<960>>>>,
      <<"pitchfork;", <<8916>>>>, <<"piv;", <<982>>>>, <<"planck;", <<8463>>>>,
      <<"planckh;", <<8462>>>>, <<"plankv;", <<8463>>>>, <<"plus;", <<43>>>>,
      <<"plusacir;", <<10787>>>>, <<"plusb;", <<8862>>>>,
      <<"pluscir;", <<10786>>>>, <<"plusdo;", <<8724>>>>,
      <<"plusdu;", <<10789>>>>, <<"pluse;", <<10866>>>>, <<"plusmn", <<177>>>>,
      <<"plusmn;", <<177>>>>, <<"plussim;", <<10790>>>>,
      <<"plustwo;", <<10791>>>>, <<"pm;", <<177>>>>,
      <<"pointint;", <<10773>>>>, <<"popf;", <<120161>>>>,
      <<"pound", <<163>>>>, <<"pound;", <<163>>>>, <<"pr;", <<8826>>>>,
      <<"prE;", <<10931>>>>, <<"prap;", <<10935>>>>, <<"prcue;", <<8828>>>>,
      <<"pre;", <<10927>>>>, <<"prec;", <<8826>>>>,
      <<"precapprox;", <<10935>>>>, <<"preccurlyeq;", <<8828>>>>,
      <<"preceq;", <<10927>>>>, <<"precnapprox;", <<10937>>>>,
      <<"precneqq;", <<10933>>>>, <<"precnsim;", <<8936>>>>,
      <<"precsim;", <<8830>>>>, <<"prime;", <<8242>>>>,
      <<"primes;", <<8473>>>>, <<"prnE;", <<10933>>>>, <<"prnap;", <<10937>>>>,
      <<"prnsim;", <<8936>>>>, <<"prod;", <<8719>>>>,
      <<"profalar;", <<9006>>>>, <<"profline;", <<8978>>>>,
      <<"profsurf;", <<8979>>>>, <<"prop;", <<8733>>>>,
      <<"propto;", <<8733>>>>, <<"prsim;", <<8830>>>>, <<"prurel;", <<8880>>>>,
      <<"pscr;", <<120005>>>>, <<"psi;", <<968>>>>, <<"puncsp;", <<8200>>>>,
      <<"qfr;", <<120110>>>>, <<"qint;", <<10764>>>>, <<"qopf;", <<120162>>>>,
      <<"qprime;", <<8279>>>>, <<"qscr;", <<120006>>>>,
      <<"quaternions;", <<8461>>>>, <<"quatint;", <<10774>>>>,
      <<"quest;", <<63>>>>, <<"questeq;", <<8799>>>>, <<"quot", <<34>>>>,
      <<"quot;", <<34>>>>, <<"rAarr;", <<8667>>>>, <<"rArr;", <<8658>>>>,
      <<"rAtail;", <<10524>>>>, <<"rBarr;", <<10511>>>>,
      <<"rHar;", <<10596>>>>, <<"race;", <<8765, 817>>>>,
      <<"racute;", <<341>>>>, <<"radic;", <<8730>>>>,
      <<"raemptyv;", <<10675>>>>, <<"rang;", <<10217>>>>,
      <<"rangd;", <<10642>>>>, <<"range;", <<10661>>>>,
      <<"rangle;", <<10217>>>>, <<"raquo", <<187>>>>, <<"raquo;", <<187>>>>,
      <<"rarr;", <<8594>>>>, <<"rarrap;", <<10613>>>>, <<"rarrb;", <<8677>>>>,
      <<"rarrbfs;", <<10528>>>>, <<"rarrc;", <<10547>>>>,
      <<"rarrfs;", <<10526>>>>, <<"rarrhk;", <<8618>>>>,
      <<"rarrlp;", <<8620>>>>, <<"rarrpl;", <<10565>>>>,
      <<"rarrsim;", <<10612>>>>, <<"rarrtl;", <<8611>>>>,
      <<"rarrw;", <<8605>>>>, <<"ratail;", <<10522>>>>, <<"ratio;", <<8758>>>>,
      <<"rationals;", <<8474>>>>, <<"rbarr;", <<10509>>>>,
      <<"rbbrk;", <<10099>>>>, <<"rbrace;", <<125>>>>, <<"rbrack;", <<93>>>>,
      <<"rbrke;", <<10636>>>>, <<"rbrksld;", <<10638>>>>,
      <<"rbrkslu;", <<10640>>>>, <<"rcaron;", <<345>>>>,
      <<"rcedil;", <<343>>>>, <<"rceil;", <<8969>>>>, <<"rcub;", <<125>>>>,
      <<"rcy;", <<1088>>>>, <<"rdca;", <<10551>>>>, <<"rdldhar;", <<10601>>>>,
      <<"rdquo;", <<8221>>>>, <<"rdquor;", <<8221>>>>, <<"rdsh;", <<8627>>>>,
      <<"real;", <<8476>>>>, <<"realine;", <<8475>>>>,
      <<"realpart;", <<8476>>>>, <<"reals;", <<8477>>>>, <<"rect;", <<9645>>>>,
      <<"reg", <<174>>>>, <<"reg;", <<174>>>>, <<"rfisht;", <<10621>>>>,
      <<"rfloor;", <<8971>>>>, <<"rfr;", <<120111>>>>, <<"rhard;", <<8641>>>>,
      <<"rharu;", <<8640>>>>, <<"rharul;", <<10604>>>>, <<"rho;", <<961>>>>,
      <<"rhov;", <<1009>>>>, <<"rightarrow;", <<8594>>>>,
      <<"rightarrowtail;", <<8611>>>>, <<"rightharpoondown;", <<8641>>>>,
      <<"rightharpoonup;", <<8640>>>>, <<"rightleftarrows;", <<8644>>>>,
      <<"rightleftharpoons;", <<8652>>>>, <<"rightrightarrows;", <<8649>>>>,
      <<"rightsquigarrow;", <<8605>>>>, <<"rightthreetimes;", <<8908>>>>,
      <<"ring;", <<730>>>>, <<"risingdotseq;", <<8787>>>>,
      <<"rlarr;", <<8644>>>>, <<"rlhar;", <<8652>>>>, <<"rlm;", <<8207>>>>,
      <<"rmoust;", <<9137>>>>, <<"rmoustache;", <<9137>>>>,
      <<"rnmid;", <<10990>>>>, <<"roang;", <<10221>>>>, <<"roarr;", <<8702>>>>,
      <<"robrk;", <<10215>>>>, <<"ropar;", <<10630>>>>,
      <<"ropf;", <<120163>>>>, <<"roplus;", <<10798>>>>,
      <<"rotimes;", <<10805>>>>, <<"rpar;", <<41>>>>, <<"rpargt;", <<10644>>>>,
      <<"rppolint;", <<10770>>>>, <<"rrarr;", <<8649>>>>,
      <<"rsaquo;", <<8250>>>>, <<"rscr;", <<120007>>>>, <<"rsh;", <<8625>>>>,
      <<"rsqb;", <<93>>>>, <<"rsquo;", <<8217>>>>, <<"rsquor;", <<8217>>>>,
      <<"rthree;", <<8908>>>>, <<"rtimes;", <<8906>>>>, <<"rtri;", <<9657>>>>,
      <<"rtrie;", <<8885>>>>, <<"rtrif;", <<9656>>>>,
      <<"rtriltri;", <<10702>>>>, <<"ruluhar;", <<10600>>>>,
      <<"rx;", <<8478>>>>, <<"sacute;", <<347>>>>, <<"sbquo;", <<8218>>>>,
      <<"sc;", <<8827>>>>, <<"scE;", <<10932>>>>, <<"scap;", <<10936>>>>,
      <<"scaron;", <<353>>>>, <<"sccue;", <<8829>>>>, <<"sce;", <<10928>>>>,
      <<"scedil;", <<351>>>>, <<"scirc;", <<349>>>>, <<"scnE;", <<10934>>>>,
      <<"scnap;", <<10938>>>>, <<"scnsim;", <<8937>>>>,
      <<"scpolint;", <<10771>>>>, <<"scsim;", <<8831>>>>, <<"scy;", <<1089>>>>,
      <<"sdot;", <<8901>>>>, <<"sdotb;", <<8865>>>>, <<"sdote;", <<10854>>>>,
      <<"seArr;", <<8664>>>>, <<"searhk;", <<10533>>>>, <<"searr;", <<8600>>>>,
      <<"searrow;", <<8600>>>>, <<"sect", <<167>>>>, <<"sect;", <<167>>>>,
      <<"semi;", <<59>>>>, <<"seswar;", <<10537>>>>, <<"setminus;", <<8726>>>>,
      <<"setmn;", <<8726>>>>, <<"sext;", <<10038>>>>, <<"sfr;", <<120112>>>>,
      <<"sfrown;", <<8994>>>>, <<"sharp;", <<9839>>>>, <<"shchcy;", <<1097>>>>,
      <<"shcy;", <<1096>>>>, <<"shortmid;", <<8739>>>>,
      <<"shortparallel;", <<8741>>>>, <<"shy", <<173>>>>, <<"shy;", <<173>>>>,
      <<"sigma;", <<963>>>>, <<"sigmaf;", <<962>>>>, <<"sigmav;", <<962>>>>,
      <<"sim;", <<8764>>>>, <<"simdot;", <<10858>>>>, <<"sime;", <<8771>>>>,
      <<"simeq;", <<8771>>>>, <<"simg;", <<10910>>>>, <<"simgE;", <<10912>>>>,
      <<"siml;", <<10909>>>>, <<"simlE;", <<10911>>>>, <<"simne;", <<8774>>>>,
      <<"simplus;", <<10788>>>>, <<"simrarr;", <<10610>>>>,
      <<"slarr;", <<8592>>>>, <<"smallsetminus;", <<8726>>>>,
      <<"smashp;", <<10803>>>>, <<"smeparsl;", <<10724>>>>,
      <<"smid;", <<8739>>>>, <<"smile;", <<8995>>>>, <<"smt;", <<10922>>>>,
      <<"smte;", <<10924>>>>, <<"smtes;", <<10924, 65024>>>>,
      <<"softcy;", <<1100>>>>, <<"sol;", <<47>>>>, <<"solb;", <<10692>>>>,
      <<"solbar;", <<9023>>>>, <<"sopf;", <<120164>>>>,
      <<"spades;", <<9824>>>>, <<"spadesuit;", <<9824>>>>,
      <<"spar;", <<8741>>>>, <<"sqcap;", <<8851>>>>,
      <<"sqcaps;", <<8851, 65024>>>>, <<"sqcup;", <<8852>>>>,
      <<"sqcups;", <<8852, 65024>>>>, <<"sqsub;", <<8847>>>>,
      <<"sqsube;", <<8849>>>>, <<"sqsubset;", <<8847>>>>,
      <<"sqsubseteq;", <<8849>>>>, <<"sqsup;", <<8848>>>>,
      <<"sqsupe;", <<8850>>>>, <<"sqsupset;", <<8848>>>>,
      <<"sqsupseteq;", <<8850>>>>, <<"squ;", <<9633>>>>,
      <<"square;", <<9633>>>>, <<"squarf;", <<9642>>>>, <<"squf;", <<9642>>>>,
      <<"srarr;", <<8594>>>>, <<"sscr;", <<120008>>>>, <<"ssetmn;", <<8726>>>>,
      <<"ssmile;", <<8995>>>>, <<"sstarf;", <<8902>>>>, <<"star;", <<9734>>>>,
      <<"starf;", <<9733>>>>, <<"straightepsilon;", <<1013>>>>,
      <<"straightphi;", <<981>>>>, <<"strns;", <<175>>>>, <<"sub;", <<8834>>>>,
      <<"subE;", <<10949>>>>, <<"subdot;", <<10941>>>>, <<"sube;", <<8838>>>>,
      <<"subedot;", <<10947>>>>, <<"submult;", <<10945>>>>,
      <<"subnE;", <<10955>>>>, <<"subne;", <<8842>>>>,
      <<"subplus;", <<10943>>>>, <<"subrarr;", <<10617>>>>,
      <<"subset;", <<8834>>>>, <<"subseteq;", <<8838>>>>,
      <<"subseteqq;", <<10949>>>>, <<"subsetneq;", <<8842>>>>,
      <<"subsetneqq;", <<10955>>>>, <<"subsim;", <<10951>>>>,
      <<"subsub;", <<10965>>>>, <<"subsup;", <<10963>>>>,
      <<"succ;", <<8827>>>>, <<"succapprox;", <<10936>>>>,
      <<"succcurlyeq;", <<8829>>>>, <<"succeq;", <<10928>>>>,
      <<"succnapprox;", <<10938>>>>, <<"succneqq;", <<10934>>>>,
      <<"succnsim;", <<8937>>>>, <<"succsim;", <<8831>>>>,
      <<"sum;", <<8721>>>>, <<"sung;", <<9834>>>>, <<"sup1", <<185>>>>,
      <<"sup1;", <<185>>>>, <<"sup2", <<178>>>>, <<"sup2;", <<178>>>>,
      <<"sup3", <<179>>>>, <<"sup3;", <<179>>>>, <<"sup;", <<8835>>>>,
      <<"supE;", <<10950>>>>, <<"supdot;", <<10942>>>>,
      <<"supdsub;", <<10968>>>>, <<"supe;", <<8839>>>>,
      <<"supedot;", <<10948>>>>, <<"suphsol;", <<10185>>>>,
      <<"suphsub;", <<10967>>>>, <<"suplarr;", <<10619>>>>,
      <<"supmult;", <<10946>>>>, <<"supnE;", <<10956>>>>,
      <<"supne;", <<8843>>>>, <<"supplus;", <<10944>>>>,
      <<"supset;", <<8835>>>>, <<"supseteq;", <<8839>>>>,
      <<"supseteqq;", <<10950>>>>, <<"supsetneq;", <<8843>>>>,
      <<"supsetneqq;", <<10956>>>>, <<"supsim;", <<10952>>>>,
      <<"supsub;", <<10964>>>>, <<"supsup;", <<10966>>>>,
      <<"swArr;", <<8665>>>>, <<"swarhk;", <<10534>>>>, <<"swarr;", <<8601>>>>,
      <<"swarrow;", <<8601>>>>, <<"swnwar;", <<10538>>>>, <<"szlig", <<223>>>>,
      <<"szlig;", <<223>>>>, <<"target;", <<8982>>>>, <<"tau;", <<964>>>>,
      <<"tbrk;", <<9140>>>>, <<"tcaron;", <<357>>>>, <<"tcedil;", <<355>>>>,
      <<"tcy;", <<1090>>>>, <<"tdot;", <<8411>>>>, <<"telrec;", <<8981>>>>,
      <<"tfr;", <<120113>>>>, <<"there4;", <<8756>>>>,
      <<"therefore;", <<8756>>>>, <<"theta;", <<952>>>>,
      <<"thetasym;", <<977>>>>, <<"thetav;", <<977>>>>,
      <<"thickapprox;", <<8776>>>>, <<"thicksim;", <<8764>>>>,
      <<"thinsp;", <<8201>>>>, <<"thkap;", <<8776>>>>, <<"thksim;", <<8764>>>>,
      <<"thorn", <<254>>>>, <<"thorn;", <<254>>>>, <<"tilde;", <<732>>>>,
      <<"times", <<215>>>>, <<"times;", <<215>>>>, <<"timesb;", <<8864>>>>,
      <<"timesbar;", <<10801>>>>, <<"timesd;", <<10800>>>>,
      <<"tint;", <<8749>>>>, <<"toea;", <<10536>>>>, <<"top;", <<8868>>>>,
      <<"topbot;", <<9014>>>>, <<"topcir;", <<10993>>>>,
      <<"topf;", <<120165>>>>, <<"topfork;", <<10970>>>>,
      <<"tosa;", <<10537>>>>, <<"tprime;", <<8244>>>>, <<"trade;", <<8482>>>>,
      <<"triangle;", <<9653>>>>, <<"triangledown;", <<9663>>>>,
      <<"triangleleft;", <<9667>>>>, <<"trianglelefteq;", <<8884>>>>,
      <<"triangleq;", <<8796>>>>, <<"triangleright;", <<9657>>>>,
      <<"trianglerighteq;", <<8885>>>>, <<"tridot;", <<9708>>>>,
      <<"trie;", <<8796>>>>, <<"triminus;", <<10810>>>>,
      <<"triplus;", <<10809>>>>, <<"trisb;", <<10701>>>>,
      <<"tritime;", <<10811>>>>, <<"trpezium;", <<9186>>>>,
      <<"tscr;", <<120009>>>>, <<"tscy;", <<1094>>>>, <<"tshcy;", <<1115>>>>,
      <<"tstrok;", <<359>>>>, <<"twixt;", <<8812>>>>,
      <<"twoheadleftarrow;", <<8606>>>>, <<"twoheadrightarrow;", <<8608>>>>,
      <<"uArr;", <<8657>>>>, <<"uHar;", <<10595>>>>, <<"uacute", <<250>>>>,
      <<"uacute;", <<250>>>>, <<"uarr;", <<8593>>>>, <<"ubrcy;", <<1118>>>>,
      <<"ubreve;", <<365>>>>, <<"ucirc", <<251>>>>, <<"ucirc;", <<251>>>>,
      <<"ucy;", <<1091>>>>, <<"udarr;", <<8645>>>>, <<"udblac;", <<369>>>>,
      <<"udhar;", <<10606>>>>, <<"ufisht;", <<10622>>>>,
      <<"ufr;", <<120114>>>>, <<"ugrave", <<249>>>>, <<"ugrave;", <<249>>>>,
      <<"uharl;", <<8639>>>>, <<"uharr;", <<8638>>>>, <<"uhblk;", <<9600>>>>,
      <<"ulcorn;", <<8988>>>>, <<"ulcorner;", <<8988>>>>,
      <<"ulcrop;", <<8975>>>>, <<"ultri;", <<9720>>>>, <<"umacr;", <<363>>>>,
      <<"uml", <<168>>>>, <<"uml;", <<168>>>>, <<"uogon;", <<371>>>>,
      <<"uopf;", <<120166>>>>, <<"uparrow;", <<8593>>>>,
      <<"updownarrow;", <<8597>>>>, <<"upharpoonleft;", <<8639>>>>,
      <<"upharpoonright;", <<8638>>>>, <<"uplus;", <<8846>>>>,
      <<"upsi;", <<965>>>>, <<"upsih;", <<978>>>>, <<"upsilon;", <<965>>>>,
      <<"upuparrows;", <<8648>>>>, <<"urcorn;", <<8989>>>>,
      <<"urcorner;", <<8989>>>>, <<"urcrop;", <<8974>>>>,
      <<"uring;", <<367>>>>, <<"urtri;", <<9721>>>>, <<"uscr;", <<120010>>>>,
      <<"utdot;", <<8944>>>>, <<"utilde;", <<361>>>>, <<"utri;", <<9653>>>>,
      <<"utrif;", <<9652>>>>, <<"uuarr;", <<8648>>>>, <<"uuml", <<252>>>>,
      <<"uuml;", <<252>>>>, <<"uwangle;", <<10663>>>>, <<"vArr;", <<8661>>>>,
      <<"vBar;", <<10984>>>>, <<"vBarv;", <<10985>>>>, <<"vDash;", <<8872>>>>,
      <<"vangrt;", <<10652>>>>, <<"varepsilon;", <<1013>>>>,
      <<"varkappa;", <<1008>>>>, <<"varnothing;", <<8709>>>>,
      <<"varphi;", <<981>>>>, <<"varpi;", <<982>>>>,
      <<"varpropto;", <<8733>>>>, <<"varr;", <<8597>>>>,
      <<"varrho;", <<1009>>>>, <<"varsigma;", <<962>>>>,
      <<"varsubsetneq;", <<8842, 65024>>>>,
      <<"varsubsetneqq;", <<10955, 65024>>>>,
      <<"varsupsetneq;", <<8843, 65024>>>>,
      <<"varsupsetneqq;", <<10956, 65024>>>>, <<"vartheta;", <<977>>>>,
      <<"vartriangleleft;", <<8882>>>>, <<"vartriangleright;", <<8883>>>>,
      <<"vcy;", <<1074>>>>, <<"vdash;", <<8866>>>>, <<"vee;", <<8744>>>>,
      <<"veebar;", <<8891>>>>, <<"veeeq;", <<8794>>>>, <<"vellip;", <<8942>>>>,
      <<"verbar;", <<124>>>>, <<"vert;", <<124>>>>, <<"vfr;", <<120115>>>>,
      <<"vltri;", <<8882>>>>, <<"vnsub;", <<8834, 8402>>>>,
      <<"vnsup;", <<8835, 8402>>>>, <<"vopf;", <<120167>>>>,
      <<"vprop;", <<8733>>>>, <<"vrtri;", <<8883>>>>, <<"vscr;", <<120011>>>>,
      <<"vsubnE;", <<10955, 65024>>>>, <<"vsubne;", <<8842, 65024>>>>,
      <<"vsupnE;", <<10956, 65024>>>>, <<"vsupne;", <<8843, 65024>>>>,
      <<"vzigzag;", <<10650>>>>, <<"wcirc;", <<373>>>>,
      <<"wedbar;", <<10847>>>>, <<"wedge;", <<8743>>>>,
      <<"wedgeq;", <<8793>>>>, <<"weierp;", <<8472>>>>, <<"wfr;", <<120116>>>>,
      <<"wopf;", <<120168>>>>, <<"wp;", <<8472>>>>, <<"wr;", <<8768>>>>,
      <<"wreath;", <<8768>>>>, <<"wscr;", <<120012>>>>, <<"xcap;", <<8898>>>>,
      <<"xcirc;", <<9711>>>>, <<"xcup;", <<8899>>>>, <<"xdtri;", <<9661>>>>,
      <<"xfr;", <<120117>>>>, <<"xhArr;", <<10234>>>>, <<"xharr;", <<10231>>>>,
      <<"xi;", <<958>>>>, <<"xlArr;", <<10232>>>>, <<"xlarr;", <<10229>>>>,
      <<"xmap;", <<10236>>>>, <<"xnis;", <<8955>>>>, <<"xodot;", <<10752>>>>,
      <<"xopf;", <<120169>>>>, <<"xoplus;", <<10753>>>>,
      <<"xotime;", <<10754>>>>, <<"xrArr;", <<10233>>>>,
      <<"xrarr;", <<10230>>>>, <<"xscr;", <<120013>>>>,
      <<"xsqcup;", <<10758>>>>, <<"xuplus;", <<10756>>>>,
      <<"xutri;", <<9651>>>>, <<"xvee;", <<8897>>>>, <<"xwedge;", <<8896>>>>,
      <<"yacute", <<253>>>>, <<"yacute;", <<253>>>>, <<"yacy;", <<1103>>>>,
      <<"ycirc;", <<375>>>>, <<"ycy;", <<1099>>>>, <<"yen", <<165>>>>,
      <<"yen;", <<165>>>>, <<"yfr;", <<120118>>>>, <<"yicy;", <<1111>>>>,
      <<"yopf;", <<120170>>>>, <<"yscr;", <<120014>>>>, <<"yucy;", <<1102>>>>,
      <<"yuml", <<255>>>>, <<"yuml;", <<255>>>>, <<"zacute;", <<378>>>>,
      <<"zcaron;", <<382>>>>, <<"zcy;", <<1079>>>>, <<"zdot;", <<380>>>>,
      <<"zeetrf;", <<8488>>>>, <<"zeta;", <<950>>>>, <<"zfr;", <<120119>>>>,
      <<"zhcy;", <<1078>>>>, <<"zigrarr;", <<8669>>>>, <<"zopf;", <<120171>>>>,
      <<"zscr;", <<120015>>>>, <<"zwj;", <<8205>>>>, <<"zwnj;", <<8204>>>> }

Html5Names == {e[1] : e \in Html5Table}

\* the characters of s as one string
RECURSIVE Str(_)
Str(s) == IF s = <<>> THEN "" ELSE Head(s) \o Str(Tail(s))

\* html5.get(name): the characters of the name, <<>> when it is no name
Html5(name) ==
    LET key == Str(name)
    IN  IF key \notin Html5Names THEN <<>>
        ELSE LET e == CHOOSE e \in Html5Table : e[1] = key
             IN  [k \in 1..Len(e[2]) |-> Chr(e[2][k])]

\* the code point after U+10FFFF, which stands for every number above it
TooLarge == 1114112

\* sys.get_int_max_str_digits(): the most decimal digits int() converts
MaxIntDigits == 4300

\* the value of the digits ds in base b, cut at TooLarge
RECURSIVE NumFrom(_, _, _)
NumFrom(ds, b, acc) ==
    IF ds = <<>> THEN acc
    ELSE LET v == acc * b + HexVal(Head(ds))
         IN  NumFrom(Tail(ds), b, IF v > TooLarge THEN TooLarge ELSE v)

\* int(ds, b) cut at TooLarge: more than seven digits after the leading
\* zeros are a number above U+10FFFF in base 10 and in base 16
IntOf(ds, b) ==
    LET z == RunEnd(ds, 1, {"0"})
    IN  IF Len(ds) - z + 1 > 7 THEN TooLarge
        ELSE NumFrom(SubSeq(ds, z, Len(ds)), b, 0)

\* the outcome of a call: err is "none" and text is what the call returns,
\* or err is the name of the exception the call raises
Returned(t) == [err |-> "none", text |-> t]
Raised(e) == [err |-> e, text |-> <<>>]

\* the characters of windows-1252 for the bytes 128 to 159; a byte the code
\* page leaves undefined stands for itself
Cp1252 ==
    <<8364, 129, 8218, 402, 8222, 8230, 8224, 8225, 710, 8240, 352, 8249, 338, 141,
      381, 143, 144, 8216, 8217, 8220, 8221, 8226, 8211, 8212, 732, 8482, 353, 8250,
      339, 157, 382, 376>>

\* bs4 HTMLTreeBuilder.empty_element_tags, DEFAULT_STRING_CONTAINERS,
\* preserve_whitespace_tags; HTMLParser.CDATA_CONTENT_ELEMENTS;
\* BeautifulSoup.ASCII_SPACES
EmptyElementTags ==
    {"area", "base", "br", "col", "embed", "hr", "img", "input", "keygen", "link",
     "menuitem", "meta", "param", "source", "track", "wbr", "basefont", "bgsound",
     "command", "frame", "image", "isindex", "nextid", "spacer"}
StringContainers == {"rt", "rp", "style", "script", "template"}
PreserveWhitespaceTags == {"pre", "textarea"}
CdataContentElements == {"script", "style"}
AsciiSpaces == {" ", "\n", "\t", "\f", "\r"}

\* The BeautifulSoup object and its parser while a text is fed: strings are
\* the strings of the tree that get_text() returns, in document order;
\* current_data is the character data collected since the last endData() and
\* has_data tells that the list self.current_data is not empty; tagStack
\* holds the names of the open tags above the root; cdata_elem is <<>> for
\* None; err names the exception that ended the parse.
SoupInit ==
    [strings |-> <<>>, current_data |-> <<>>, has_data |-> FALSE, tagStack |-> <<>>,
     already_closed_empty_element |-> <<>>, cdata_elem |-> <<>>, err |-> "none"]

\* a tag with a name of Names is open
HasOpen(st, Names) == \E k \in 1..Len(st.tagStack) : Str(st.tagStack[k]) \in Names

\* BeautifulSoup.endData and object_was_parsed: the collected data become one
\* string of class string_container(containerClass); a string of ASCII white
\* space only shrinks to one newline or one space outside <pre> and
\* <textarea>.  _all_strings keeps NavigableString and CData: a
\* NavigableString inside a string container has the container's class and
\* is left out, as are Comment, Doctype, Declaration, ProcessingInstruction.
endData(st, containerClass) ==
    IF ~st.has_data THEN st
    ELSE LET d == st.current_data
             strippable == /\ ~HasOpen(st, PreserveWhitespaceTags)
                           /\ \A k \in 1..Len(d) : d[k] \in AsciiSpaces
             current == IF ~strippable THEN d
                        ELSE IF \E k \in 1..Len(d) : d[k] = "\n" THEN <<"\n">>
                        ELSE <<" ">>
             kept == \/ containerClass = "CData"
                     \/ containerClass = "NavigableString" /\ ~HasOpen(st, StringContainers)
         IN  [st EXCEPT !.current_data = <<>>, !.has_data = FALSE,
                        !.strings = IF kept THEN Append(@, current) ELSE @]

\* BeautifulSoupHTMLParser.handle_data
handle_data(st, data) ==
    [st EXCEPT !.current_data = @ \o data, !.has_data = TRUE]

\* endData(); current_data.append(data); endData(containerClass)
ObjectWasParsed(st, data, containerClass) ==
    endData([endData(st, "NavigableString") EXCEPT !.current_data = @ \o data,
                                                    !.has_data = TRUE],
            containerClass)

handle_comment(st, data) == ObjectWasParsed(st, data, "Comment")
handle_pi(st, data) == ObjectWasParsed(st, data, "ProcessingInstruction")
\* data[len("DOCTYPE "):]
handle_decl(st, data) == ObjectWasParsed(st, SubSeq(data, 9, Len(data)), "Doctype")

\* unknown_decl: data.upper().startswith('CDATA[') makes a CData of
\* data[len('CDATA['):]; data begins with the ASCII name of the marked section
unknown_decl(st, data) ==
    IF /\ Len(data) >= 6
       /\ Lower(SubSeq(data, 1, 5)) = <<"c", "d", "a", "t", "a">>
       /\ data[6] = "["
    THEN ObjectWasParsed(st, SubSeq(data, 7, Len(data)), "CData")
    ELSE ObjectWasParsed(st, data, "Declaration")

\* BeautifulSoup.pushTag
pushTag(st, name) == [st EXCEPT !.tagStack = Append(@, name)]

\* BeautifulSoup._popToTag: the open tags are popped up to and including the
\* most recent one called name, when one is open
popToTag(st, name) ==
    LET hits == {k \in 1..Len(st.tagStack) : st.tagStack[k] = name}
    IN  IF hits = {} THEN st
        ELSE [st EXCEPT !.tagStack = SubSeq(@, 1, MaxSet(hits) - 1)]

\* list.remove(name)
RemoveFirst(names, name) ==
    LET k == MinSet({j \in 1..Len(names) : names[j] = name})
    IN  SubSeq(names, 1, k - 1) \o SubSeq(names, k + 1, Len(names))

\* BeautifulSoupHTMLParser.handle_endtag: the end tag of an empty element the
\* start tag has closed already only leaves already_closed_empty_element
handle_endtag(st, name, check_already_closed) ==
    IF /\ check_already_closed
       /\ \E k \in 1..Len(st.already_closed_empty_element) :
              st.already_closed_empty_element[k] = name
    THEN [st EXCEPT !.already_closed_empty_element = RemoveFirst(@, name)]
    ELSE popToTag(endData(st, "NavigableString"), name)

\* BeautifulSoupHTMLParser.handle_starttag: endData(), pushTag(); a tag of
\* EmptyElementTags is closed at once
handle_starttag(st, name, handle_empty_element) ==
    IF Str(name) \in EmptyElementTags /\ handle_empty_element
    THEN [handle_endtag(pushTag(endData(st, "NavigableString"), name), name, FALSE)
             EXCEPT !.already_closed_empty_element = Append(@, name)]
    ELSE pushTag(endData(st, "NavigableString"), name)

\* BeautifulSoupHTMLParser.handle_startendtag
handle_startendtag(st, name) ==
    handle_endtag(handle_starttag(st, name, FALSE), name, TRUE)

\* bs4 handle_entityref: a name of html5, looked up without its ";", gives
\* its characters, any other name gives "&name"
handle_entityref(st, name) ==
    handle_data(st, IF Html5(Append(name, ";")) # <<>> THEN Html5(Append(name, ";"))
                    ELSE <<"&">> \o name)

\* the character of bs4 handle_charref for the number num: a number below
\* 256 is read as a byte of windows-1252, a number that chr() refuses
\* gives U+FFFD
CharRefData(num) ==
    IF num \in 128..159 THEN <<Chr(Cp1252[num - 127])>>
    ELSE IF num >= TooLarge THEN <<Chr(65533)>>
    ELSE <<Chr(num)>>

\* bs4 handle_charref: name is a run of digits, or x or X and a run of
\* hexadecimal digits; int(name) raises ValueError above MaxIntDigits digits
handle_charref(st, name) ==
    IF name[1] \in {"x", "X"}
    THEN handle_data(st, CharRefData(IntOf(Tail(name), 16)))
    ELSE IF Len(name) > MaxIntDigits THEN [st EXCEPT !.err = "ValueError"]
    ELSE handle_data(st, CharRefData(IntOf(name, 10)))

\* html._invalid_codepoints, which _replace_charref turns into nothing
InvalidCodepoint(num) ==
    \/ num \in (1..8) \cup {11} \cup (14..31) \cup (127..159) \cup (64976..65007)
    \/ num % 65536 \in {65534, 65535}

\* _replace_charref on a numeric reference: html._invalid_charrefs first
\* (0, and the bytes of windows-1252), then the surrogates and the numbers
\* above U+10FFFF, then the invalid code points
UnescapeNum(num) ==
    IF num = 0 THEN <<Chr(65533)>>
    ELSE IF num \in 128..159 THEN <<Chr(Cp1252[num - 127])>>
    ELSE IF num \in 55296..57343 \/ num >= TooLarge THEN <<Chr(65533)>>
    ELSE IF InvalidCodepoint(num) THEN <<>>
    ELSE <<Chr(num)>>

\* _replace_charref on a named reference: the name, else its longest prefix
\* that is a name of html5
ReplaceCharref(name) ==
    IF Html5(name) # <<>> THEN Html5(name)
    ELSE LET xs == {x \in 2..(Len(name) - 1) : Html5(SubSeq(name, 1, x)) # <<>>}
         IN  IF xs = {} THEN <<"&">> \o name
             ELSE Html5(SubSeq(name, 1, MaxSet(xs)))
                  \o SubSeq(name, MaxSet(xs) + 1, Len(name))

\* prefix + the text of the outcome r, or the exception of r
Then(prefix, r) == IF r.err = "none" THEN Returned(prefix \o r.text) ELSE r

\* html.unescape from index i on: _charref is
\* &(#[0-9]+;?|#[xX][0-9a-fA-F]+;?|[^\t\n\f <&#;]{1,32};?)
\* and _replace_charref puts a decimal reference through int(), which
\* raises ValueError above MaxIntDigits digits
RECURSIVE UnescapeFrom(_, _)
UnescapeFrom(s, i) ==
    LET n == Len(s) IN
    IF i > n THEN Returned(<<>>)
    ELSE IF s[i] # "&" THEN
        LET j == Find(s, "&", i) IN Then(SubSeq(s, i, j - 1), UnescapeFrom(s, j))
    ELSE IF i + 1 <= n /\ s[i + 1] = "#" THEN
        LET hex == i + 2 <= n /\ s[i + 2] \in {"x", "X"}
            b   == IF hex THEN i + 3 ELSE i + 2
            d   == RunEnd(s, b, IF hex THEN HexChars ELSE AsciiDigits)
            e   == IF d <= n /\ s[d] = ";" THEN d + 1 ELSE d
        IN  IF d = b THEN Then(<<"&">>, UnescapeFrom(s, i + 1))
            ELSE IF ~hex /\ d - b > MaxIntDigits THEN Raised("ValueError")
            ELSE Then(UnescapeNum(IntOf(SubSeq(s, b, d - 1), IF hex THEN 16 ELSE 10)),
                      UnescapeFrom(s, e))
    ELSE LET stops == {k \in (i + 1)..n : s[k] \in {" ", "\t", "\n", "\f", "<", "&", "#", ";"} \/ k - (i + 1) >= 32}
             e0 == IF stops = {} THEN n + 1 ELSE MinSet(stops)
             e  == IF e0 > i + 1 /\ e0 <= n /\ s[e0] = ";" THEN e0 + 1 ELSE e0
         IN  IF e0 = i + 1 THEN Then(<<"&">>, UnescapeFrom(s, i + 1))
             ELSE Then(ReplaceCharref(SubSeq(s, i + 1, e - 1)), UnescapeFrom(s, e))

\* html.unescape(s)
unescape(s) == UnescapeFrom(s, 1)

\* [^\t\n\r\f />\x00]: what ends a tag name
TagNameStops == {"\t", "\n", "\r", "\f", " ", "/", ">", Chr(0)}

\* (?:\s|/(?!>))* from q on: the index after it
SkipSpaceSlash(s, q) ==
    LET stops == {k \in q..Len(s) :
                    ~(\/ IsSpace(s[k])
                      \/ s[k] = "/" /\ ~(k < Len(s) /\ s[k + 1] = ">"))}
    IN  IF stops = {} THEN Len(s) + 1 ELSE MinSet(stops)

\* (?<=['"\s/])[^\s/>]: an attribute name may start at p
AttrStarts(s, p) ==
    /\ p >= 2 /\ p <= Len(s)
    /\ s[p - 1] \in {"'", "\"", "/"} \cup SpaceChars
    /\ s[p] \notin {"/", ">"} \cup SpaceChars

\* a bare value [^>\s]* from q on
BareValue(s, q) ==
    [from |-> q, to |-> FindIn(s, SpaceChars \cup {">"}, q) - 1,
     end |-> FindIn(s, SpaceChars \cup {">"}, q)]

\* (?:\s*=+\s*('[^']*'|"[^"]*"|(?!['"])[^>\s]*))? after an attribute name
\* that ends before nameEnd: the value is s[from..to] and end is the index
\* after the group.  A value that opens a quote and never closes it makes
\* the pattern step back: the white space before the quote is given up and
\* the value is empty, else one of several "=" is given up and starts a bare
\* value, else the name has no value.
AttrValueAt(s, nameEnd, e1, e2, e3) ==
    LET none == [from |-> nameEnd, to |-> nameEnd - 1, end |-> nameEnd]
    IN  IF e2 = e1 THEN none
        ELSE IF e3 > Len(s) THEN BareValue(s, e3)
        ELSE IF s[e3] \notin {"'", "\""} THEN BareValue(s, e3)
        ELSE IF Find(s, s[e3], e3 + 1) <= Len(s)
             THEN [from |-> e3, to |-> Find(s, s[e3], e3 + 1),
                   end |-> Find(s, s[e3], e3 + 1) + 1]
        ELSE IF e3 > e2 THEN [from |-> e3 - 1, to |-> e3 - 2, end |-> e3 - 1]
        ELSE IF e2 - e1 >= 2 THEN BareValue(s, e2 - 1)
        ELSE none

AttrValueFrom(s, nameEnd, e1, e2) ==
    AttrValueAt(s, nameEnd, e1, e2, RunEnd(s, e2, SpaceChars))

\* the value of the attribute whose name starts at p: [^\s/=>]* ends the
\* name, \s* and =+ follow
AttrValue(s, nameEnd) ==
    AttrValueFrom(s, nameEnd, RunEnd(s, nameEnd, SpaceChars),
                  RunEnd(s, RunEnd(s, nameEnd, SpaceChars), {"="}))

AttrNameEnd(s, p) == FindIn(s, {"/", "=", ">"} \cup SpaceChars, p + 1)

\* attrfind_tolerant.match(rawdata, p), and one attribute of
\* locatestarttagend_tolerant: the value and the index after the match
AttrEnd(s, p) == SkipSpaceSlash(s, AttrValue(s, AttrNameEnd(s, p)).end)
AttrText(v, s) == SubSeq(s, v.from, v.to)
AttrValueText(s, p) == AttrText(AttrValue(s, AttrNameEnd(s, p)), s)

\* the attributes of locatestarttagend_tolerant from p on: the index after
\* the last one
RECURSIVE AttrsEnd(_, _)
AttrsEnd(s, p) == IF AttrStarts(s, p) THEN AttrsEnd(s, AttrEnd(s, p)) ELSE p

\* locatestarttagend_tolerant.match(rawdata, i).end(), s[i] = "<" and
\* s[i + 1] a letter
LocateStartTagEnd(s, i) ==
    RunEnd(s, AttrsEnd(s, RunEnd(s, FindIn(s, TagNameStops, i + 2),
                                 SpaceChars \cup {"/"})),
           SpaceChars)

\* check_for_whole_start_tag: the index after the start tag, 0 for -1
WholeStartTag(s, j) ==
    IF j > Len(s) THEN 0
    ELSE IF s[j] = ">" THEN j + 1
    ELSE IF s[j] = "/" THEN IF j < Len(s) /\ s[j + 1] = ">" THEN j + 2 ELSE 0
    ELSE IF s[j] \in AsciiLetters \cup {"="} THEN 0
    ELSE j
check_for_whole_start_tag(s, i) == WholeStartTag(s, LocateStartTagEnd(s, i))

\* html.unescape(s) raises: s holds "&#" and more than MaxIntDigits digits
UnescapeRaises(s) == unescape(s).err # "none"

\* the loop of parse_starttag over the attributes from k on: the index where
\* it ends, and the exception of unescape(attrvalue)
RECURSIVE AttrLoop(_, _, _)
AttrLoop(s, k, endpos) ==
    IF k < endpos /\ AttrStarts(s, k)
    THEN IF UnescapeRaises(AttrValueText(s, k)) THEN [k |-> k, err |-> "ValueError"]
         ELSE AttrLoop(s, AttrEnd(s, k), endpos)
    ELSE [k |-> k, err |-> "none"]

\* the end of parse_starttag: tag is the lowered name, a the outcome of the
\* attribute loop, junk tells that rawdata[k:endpos].strip() is neither ">"
\* nor "/>"
StartTagDone(s, i, st, endpos, tag, a, end) ==
    [k  |-> endpos,
     st |-> IF a.err # "none" THEN [st EXCEPT !.err = a.err]
            ELSE IF end \notin {<<">">>, <<"/", ">">>}
                 THEN handle_data(st, SubSeq(s, i, endpos - 1))
            ELSE IF end = <<"/", ">">> THEN handle_startendtag(st, tag)
            ELSE IF Str(tag) \in CdataContentElements
                 THEN [handle_starttag(st, tag, TRUE) EXCEPT !.cdata_elem = tag]
            ELSE handle_starttag(st, tag, TRUE)]

StartTagAttrs(s, i, st, endpos, nameEnd, a) ==
    StartTagDone(s, i, st, endpos, Lower(SubSeq(s, i + 1, nameEnd - 1)), a,
                 Strip(SubSeq(s, a.k, endpos - 1)))

StartTagFrom(s, i, st, endpos, nameEnd) ==
    IF endpos = 0 THEN [k |-> 0, st |-> st]
    ELSE StartTagAttrs(s, i, st, endpos, nameEnd,
                       AttrLoop(s, SkipSpaceSlash(s, nameEnd), endpos))

\* parse_starttag(i): k is the index after the tag, 0 for -1
parse_starttag(s, i, st) ==
    StartTagFrom(s, i, st, check_for_whole_start_tag(s, i), FindIn(s, TagNameStops, i + 2))

\* parse_bogus_comment(i)
BogusComment(s, i, st, pos) ==
    IF pos > Len(s) THEN [k |-> 0, st |-> st]
    ELSE [k |-> pos + 1, st |-> handle_comment(st, SubSeq(s, i + 2, pos - 1))]
parse_bogus_comment(s, i, st) == BogusComment(s, i, st, Find(s, ">", i + 2))

\* the match of a closing pattern: the index where it starts and the index
\* after it; start = 0 when there is none
NoMatch == [start |-> 0, end |-> 0]

\* commentclose.search(rawdata, from): --\s*>
CommentClose(s, from) ==
    LET hits == {j \in from..(Len(s) - 2) :
                    /\ s[j] = "-" /\ s[j + 1] = "-"
                    /\ RunEnd(s, j + 2, SpaceChars) <= Len(s)
                    /\ s[RunEnd(s, j + 2, SpaceChars)] = ">"}
    IN  IF hits = {} THEN NoMatch
        ELSE [start |-> MinSet(hits), end |-> RunEnd(s, MinSet(hits) + 2, SpaceChars) + 1]

\* parse_comment(i)
CommentFrom(s, i, st, m) ==
    IF m.start = 0 THEN [k |-> 0, st |-> st]
    ELSE [k |-> m.end, st |-> handle_comment(st, SubSeq(s, i + 4, m.start - 1))]
parse_comment(s, i, st) == CommentFrom(s, i, st, CommentClose(s, i + 4))

\* parse_pi(i)
PiFrom(s, i, st, j) ==
    IF j > Len(s) THEN [k |-> 0, st |-> st]
    ELSE [k |-> j + 1, st |-> handle_pi(st, SubSeq(s, i + 2, j - 1))]
parse_pi(s, i, st) == PiFrom(s, i, st, Find(s, ">", i + 2))

\* _msmarkedsectionclose ]\s*> that starts at j: the index after it, else 0
MsCloseAt(s, j) ==
    IF /\ j <= Len(s) /\ s[j] = "]"
       /\ RunEnd(s, j + 1, SpaceChars) <= Len(s)
       /\ s[RunEnd(s, j + 1, SpaceChars)] = ">"
    THEN RunEnd(s, j + 1, SpaceChars) + 1 ELSE 0

\* _markedsectionclose ]\s*]\s*> that starts at j: the index after it, else 0
MarkedCloseAt(s, j) ==
    IF j <= Len(s) /\ s[j] = "]" THEN MsCloseAt(s, RunEnd(s, j + 1, SpaceChars)) ELSE 0

\* the search of either pattern from index from on
MarkedSectionClose(s, from, ms) ==
    LET hits == {j \in from..Len(s) :
                    (IF ms THEN MsCloseAt(s, j) ELSE MarkedCloseAt(s, j)) # 0}
    IN  IF hits = {} THEN NoMatch
        ELSE [start |-> MinSet(hits),
              end |-> IF ms THEN MsCloseAt(s, MinSet(hits)) ELSE MarkedCloseAt(s, MinSet(hits))]

\* [-_.a-zA-Z0-9] and [-.a-zA-Z0-9:_]
DeclNameChars == AsciiLetters \cup AsciiDigits \cup {"-", "_", "."}
EndTagNameChars == DeclNameChars \cup {":"}

\* the end of parse_marked_section: the section runs to the match m
MarkedSectionFrom(s, i, st, m) ==
    IF m.start = 0 THEN [k |-> 0, st |-> st]
    ELSE [k |-> m.end, st |-> unknown_decl(st, SubSeq(s, i + 3, m.start - 1))]

\* parse_marked_section(i) after _scan_name(i + 3, i) found the name that
\* ends before nameEnd and the white space that ends before j; a name that
\* runs to the end of the buffer is not complete
MarkedSectionNamed(s, i, st, sectName, j) ==
    IF j > Len(s) THEN [k |-> 0, st |-> st]
    ELSE IF Str(sectName) \in {"temp", "cdata", "ignore", "include", "rcdata"}
    THEN MarkedSectionFrom(s, i, st, MarkedSectionClose(s, i + 3, FALSE))
    ELSE IF Str(sectName) \in {"if", "else", "endif"}
    THEN MarkedSectionFrom(s, i, st, MarkedSectionClose(s, i + 3, TRUE))
    ELSE [k |-> 0, st |-> [st EXCEPT !.err = "ParserRejectedMarkup"]]

MarkedSectionName(s, i, st, nameEnd) ==
    MarkedSectionNamed(s, i, st, Lower(SubSeq(s, i + 3, nameEnd - 1)),
                       RunEnd(s, nameEnd, SpaceChars))

\* parse_marked_section(i): _scan_name raises AssertionError when no name
\* starts at i + 3, parse_marked_section raises it on a name it does not
\* know, and bs4 turns it into ParserRejectedMarkup
parse_marked_section(s, i, st) ==
    IF i + 3 > Len(s) THEN [k |-> 0, st |-> st]
    ELSE IF s[i + 3] \notin AsciiLetters
    THEN [k |-> 0, st |-> [st EXCEPT !.err = "ParserRejectedMarkup"]]
    ELSE MarkedSectionName(s, i, st, RunEnd(s, i + 4, DeclNameChars))

\* rawdata.startswith(t, i)
StartsWith(s, t, i) == i + Len(t) - 1 <= Len(s) /\ SubSeq(s, i, i + Len(t) - 1) = t

\* the doctype branch of parse_html_declaration
DoctypeFrom(s, i, st, gtpos) ==
    IF gtpos > Len(s) THEN [k |-> 0, st |-> st]
    ELSE [k |-> gtpos + 1, st |-> handle_decl(st, SubSeq(s, i + 2, gtpos - 1))]

\* parse_html_declaration(i)
parse_html_declaration(s, i, st) ==
    IF StartsWith(s, <<"<", "!", "-", "-">>, i) THEN parse_comment(s, i, st)
    ELSE IF StartsWith(s, <<"<", "!", "[">>, i) THEN parse_marked_section(s, i, st)
    ELSE IF /\ i + 8 <= Len(s)
            /\ Lower(SubSeq(s, i, i + 8)) = <<"<", "!", "d", "o", "c", "t", "y", "p", "e">>
    THEN DoctypeFrom(s, i, st, Find(s, ">", i + 9))
    ELSE parse_bogus_comment(s, i, st)

\* the end tag of parse_endtag when endtagfind does not match: the data in
\* cdata mode, else the name of tagfind_tolerant, "</>" or a bogus comment
EndTagOther(s, i, st, gt) ==
    IF st.cdata_elem # <<>>
    THEN [k |-> gt + 1, st |-> handle_data(st, SubSeq(s, i, gt))]
    ELSE IF i + 2 <= Len(s) /\ s[i + 2] \in AsciiLetters
    THEN [k  |-> Find(s, ">", SkipSpaceSlash(s, FindIn(s, TagNameStops, i + 3))) + 1,
          st |-> handle_endtag(st, Lower(SubSeq(s, i + 2, FindIn(s, TagNameStops, i + 3) - 1)),
                               TRUE)]
    ELSE IF StartsWith(s, <<"<", "/", ">">>, i) THEN [k |-> i + 3, st |-> st]
    ELSE parse_bogus_comment(s, i, st)

\* the end tag of parse_endtag when endtagfind matches the name elem
EndTagNamed(s, i, st, gt, elem) ==
    IF st.cdata_elem # <<>> /\ elem # st.cdata_elem
    THEN [k |-> gt + 1, st |-> handle_data(st, SubSeq(s, i, gt))]
    ELSE [k |-> gt + 1, st |-> [handle_endtag(st, elem, TRUE) EXCEPT !.cdata_elem = <<>>]]

\* endtagfind.match(rawdata, i), </\s*([a-zA-Z][-.a-zA-Z0-9:_]*)\s*>: a is
\* the index after </\s* and nm the index after the name
EndTagFind(s, i, st, gt, a, nm) ==
    IF /\ nm > a
       /\ RunEnd(s, nm, SpaceChars) <= Len(s)
       /\ s[RunEnd(s, nm, SpaceChars)] = ">"
    THEN EndTagNamed(s, i, st, gt, Lower(SubSeq(s, a, nm - 1)))
    ELSE EndTagOther(s, i, st, gt)

EndTagFrom(s, i, st, gt, a) ==
    IF gt > Len(s) THEN [k |-> 0, st |-> st]
    ELSE EndTagFind(s, i, st, gt, a,
                    IF a <= Len(s) /\ s[a] \in AsciiLetters
                    THEN RunEnd(s, a + 1, EndTagNameChars) ELSE a)

\* parse_endtag(i)
parse_endtag(s, i, st) ==
    EndTagFrom(s, i, st, Find(s, ">", i + 1), RunEnd(s, i + 2, SpaceChars))

\* the characters the letter x of cdata_elem matches under re.I
IgnoreCase(x) ==
    {x, UpperSeq[CHOOSE k \in 1..Len(LowerSeq) : LowerSeq[k] = x]}
        \cup (IF x = "s" THEN {Chr(383)} ELSE {})
        \cup (IF x = "i" THEN {Chr(304), Chr(305)} ELSE {})

\* </\s*cdata_elem\s*> under re.I matches at j
CdataCloseAt(s, j, elem) ==
    /\ StartsWith(s, <<"<", "/">>, j)
    /\ LET a == RunEnd(s, j + 2, SpaceChars)
           b == RunEnd(s, a + Len(elem), SpaceChars)
       IN  /\ a + Len(elem) - 1 <= Len(s)
           /\ \A k \in 1..Len(elem) : s[a + k - 1] \in IgnoreCase(elem[k])
           /\ b <= Len(s)
           /\ s[b] = ">"

\* self.interesting.search(rawdata, i): [&<], and in cdata mode the end tag
\* of cdata_elem; Len(s) + 1 when there is no match
Interesting(s, i, cdata_elem) ==
    IF cdata_elem = <<>> THEN FindIn(s, {"<", "&"}, i)
    ELSE LET hits == {j \in i..Len(s) : CdataCloseAt(s, j, cdata_elem)}
         IN  IF hits = {} THEN Len(s) + 1 ELSE MinSet(hits)

\* the markup that starts with the "<" of index i: k is the index after it,
\* 0 when it is not complete, -1 when the "<" ends the buffer
ParseMarkup(s, i, st) ==
    IF i + 1 <= Len(s) /\ s[i + 1] \in AsciiLetters THEN parse_starttag(s, i, st)
    ELSE IF StartsWith(s, <<"<", "/">>, i) THEN parse_endtag(s, i, st)
    ELSE IF StartsWith(s, <<"<", "!", "-", "-">>, i) THEN parse_comment(s, i, st)
    ELSE IF StartsWith(s, <<"<", "?">>, i) THEN parse_pi(s, i, st)
    ELSE IF StartsWith(s, <<"<", "!">>, i) THEN parse_html_declaration(s, i, st)
    ELSE IF i + 1 <= Len(s) THEN [k |-> i + 1, st |-> handle_data(st, <<"<">>)]
    ELSE [k |-> -1, st |-> st]

\* where goahead(True) goes on after markup that is not complete: after the
\* next ">", else at the next "<", else after the "<"
Incomplete(s, i) ==
    IF Find(s, ">", i + 1) <= Len(s) THEN Find(s, ">", i + 1) + 1
    ELSE IF Find(s, "<", i + 1) <= Len(s) THEN Find(s, "<", i + 1)
    ELSE i + 1

\* entityref, &([a-zA-Z][-.a-zA-Z0-9]*)[^a-zA-Z0-9], at the "&" of index i:
\* the index of the character that ends the name, Len(s) + 1 when there is
\* no match; a name that runs to the end of the text gives up what follows
\* its last "-" or "."
EntityRefEnd(s, i) ==
    LET n    == Len(s)
        run  == RunEnd(s, i + 1, AsciiLetters \cup AsciiDigits \cup {"-", "."})
        back == {k \in (i + 2)..n : s[k] \in {"-", "."}}
    IN  IF run <= n THEN run
        ELSE IF back # {} THEN MaxSet(back) ELSE n + 1

\* charref, &#(?:[0-9]+|[xX][0-9a-fA-F]+)[^0-9a-fA-F], at the "&" of index
\* i: the index of the character that ends the reference, 0 when there is
\* no match
CharRefEnd(s, i) ==
    LET n   == Len(s)
        hex == i + 2 <= n /\ s[i + 2] \in {"x", "X"}
        b   == IF hex THEN i + 3 ELSE i + 2
        d   == RunEnd(s, b, IF hex THEN HexChars ELSE AsciiDigits)
    IN  IF d > b /\ d <= n /\ s[d] \notin HexChars THEN d ELSE 0

\* html.parser goahead. end = FALSE is the run of feed(), which stops at an
\* incomplete construct; end = TRUE is the run of close() on what is left.
RECURSIVE goahead(_, _, _, _)

\* the loop is left at index i
Break(s, i, end, st) ==
    IF ~end THEN goahead(s, i, TRUE, st)
    ELSE IF i <= Len(s) /\ st.cdata_elem = <<>>
    THEN handle_data(st, SubSeq(s, i, Len(s)))
    ELSE st

\* after the markup at i was parsed with the outcome r
AfterMarkup(s, i, end, r) ==
    IF r.st.err # "none" THEN r.st
    ELSE IF r.k = -1 THEN Break(s, i, end, r.st)
    ELSE IF r.k = 0
    THEN IF ~end THEN Break(s, i, end, r.st)
         ELSE goahead(s, Incomplete(s, i), end,
                      handle_data(r.st, SubSeq(s, i, Incomplete(s, i) - 1)))
    ELSE goahead(s, r.k, end, r.st)

\* the "&#" of index i: d is the index CharRefEnd found
AtCharRef(s, i, end, st, d) ==
    IF d # 0
    THEN goahead(s, IF s[d] = ";" THEN d + 1 ELSE d, end,
                 handle_charref(st, SubSeq(s, i + 2, d - 1)))
    ELSE IF Find(s, ";", i) <= Len(s)
    THEN Break(s, i + 2, end, handle_data(st, <<"&", "#">>))
    ELSE Break(s, i, end, st)

\* the "&" of index i: e is the index EntityRefEnd found
AtEntityRef(s, i, end, st, e) ==
    IF i + 1 <= Len(s) /\ s[i + 1] \in AsciiLetters
    THEN IF e <= Len(s)
         THEN goahead(s, IF s[e] = ";" THEN e + 1 ELSE e, end,
                      handle_entityref(st, SubSeq(s, i + 1, e - 1)))
         ELSE Break(s, IF end /\ Len(s) = i + 1 THEN i + 1 ELSE i, end, st)
    ELSE IF i + 1 <= Len(s) THEN goahead(s, i + 1, end, handle_data(st, <<"&">>))
    ELSE Break(s, i, end, st)

\* the loop at the match j of interesting, after the data before it
AtInteresting(s, j, end, st) ==
    IF j > Len(s) THEN Break(s, j, end, st)
    ELSE IF s[j] = "<" THEN AfterMarkup(s, j, end, ParseMarkup(s, j, st))
    ELSE IF StartsWith(s, <<"&", "#">>, j) THEN AtCharRef(s, j, end, st, CharRefEnd(s, j))
    ELSE AtEntityRef(s, j, end, st, EntityRefEnd(s, j))

\* one turn of the loop: the character data up to the match j
Turn(s, i, j, end, st) ==
    IF j > Len(s) /\ st.cdata_elem # <<>> THEN Break(s, i, end, st)
    ELSE AtInteresting(s, j, end, IF i < j THEN handle_data(st, SubSeq(s, i, j - 1)) ELSE st)

goahead(s, i, end, st) ==
    IF st.err # "none" \/ i > Len(s) THEN st
    ELSE Turn(s, i, Interesting(s, i, st.cdata_elem), end, st)

\* BeautifulSoup(text, "html.parser").get_text(separator=" "): feed() and
\* close() of the parser, the last endData(), and the strings joined; the
\* exception of the parse when there is one
GetText(st) ==
    IF st.err # "none" THEN Raised(st.err)
    ELSE Returned(JoinSpace(endData(st, "NavigableString").strings))
get_text(text) == GetText(goahead(text, 1, FALSE, SoupInit))

\* re.sub(r"\s+", " ", clean)
RECURSIVE CollapseSpaces(_)
CollapseSpaces(s) ==
    IF s = <<>> THEN <<>>
    ELSE IF IsSpace(Head(s))
         THEN <<" ">> \o CollapseSpaces(LStrip(s))
         ELSE LET j == FindIn(s, SpaceChars, 1)
              IN  SubSeq(s, 1, j - 1) \o CollapseSpaces(SubSeq(s, j, Len(s)))

\* lines 80-82 on the text get_text returned
StripTail(u) ==
    IF u.err # "none" THEN u ELSE Returned(Strip(CollapseSpaces(u.text)))
StripClean(clean) ==
    IF clean.err # "none" THEN clean ELSE StripTail(unescape(clean.text))

\* lines 79-82: BeautifulSoup(text, "html.parser").get_text(separator=" "),
\* html.unescape, re.sub(r"\s+", " ", ...) and strip(); err names the
\* exception that leaves strip_html
strip_html(text) == StripClean(get_text(text))

----------------------------------------------------------------------------
(* remove_pii, merge_dataset.py:85-94.  The three patterns are matched as  *)
(* Python's re matches them (leftmost, greedy, backtracking); MatchEnd is  *)
(* the index after the match that starts at i, 0 when none starts there.   *)

\* [\w\.-], [-.\s] and [ -]
EmailChars == WordChars \cup {".", "-"}
PhoneSeps  == {"-", "."} \cup SpaceChars
CardSeps   == {" ", "-"}

WordAt(s, i) == i >= 1 /\ i <= Len(s) /\ s[i] \in WordChars

\* regex \b before the character of index i
WordBoundary(s, i) == WordAt(s, i - 1) # WordAt(s, i)

\* \b[\w\.-]+@[\w\.-]+\.\w+\b
EmailEnd(s, i) ==
    LET e1 == RunEnd(s, i, EmailChars)
        d0 == e1 + 1
        e2 == RunEnd(s, d0, EmailChars)
        ps == {p \in (d0 + 1)..(e2 - 1) : s[p] = "." /\ WordAt(s, p + 1)}
    IN  IF ~WordBoundary(s, i) \/ e1 = i \/ e1 > Len(s) THEN 0
        ELSE IF s[e1] # "@" \/ ps = {} THEN 0
        ELSE RunEnd(s, MaxSet(ps) + 1, WordChars)

DigitsAt(s, i, k) == i + k - 1 <= Len(s) /\ \A j \in i..(i + k - 1) : s[j] \in Digits

\* [-.\s]?
SkipPhoneSep(s, i) == IF i <= Len(s) /\ s[i] \in PhoneSeps THEN i + 1 ELSE i

\* \b\d{3}[-.\s]?\d{3}[-.\s]?\d{4}\b
PhoneEnd(s, i) ==
    LET a == SkipPhoneSep(s, i + 3)
        b == SkipPhoneSep(s, a + 3)
    IN  IF WordBoundary(s, i) /\ DigitsAt(s, i, 3) /\ DigitsAt(s, a, 3)
           /\ DigitsAt(s, b, 4) /\ WordBoundary(s, b + 4)
        THEN b + 4 ELSE 0

\* (?:\d[ -]*?){13,16}\b with k digits matched and p the next index: one more
\* digit group first (greedy count), then the closing \b, then one more
\* separator (lazy [ -]*?)
RECURSIVE CardExplore(_, _, _)
CardExplore(s, p, k) ==
    LET deeper == IF k < 16 /\ p <= Len(s) /\ s[p] \in Digits
                  THEN CardExplore(s, p + 1, k + 1) ELSE 0
    IN  IF deeper > 0 THEN deeper
        ELSE IF k >= 13 /\ WordBoundary(s, p) THEN p
        ELSE IF p <= Len(s) /\ s[p] \in CardSeps THEN CardExplore(s, p + 1, k)
        ELSE 0

\* \b(?:\d[ -]*?){13,16}\b
CardEnd(s, i) ==
    IF WordBoundary(s, i) /\ i <= Len(s) /\ s[i] \in Digits
    THEN CardExplore(s, i + 1, 1) ELSE 0

\* the list with the credit card pattern first
patterns_card_first == <<"card", "email", "phone">>

\* the list of line 87-91, in its order
patterns == <<"email", "phone", "card">>

MatchEnd(pat, s, i) ==
    IF pat = "email" THEN EmailEnd(s, i)
    ELSE IF pat = "phone" THEN PhoneEnd(s, i)
    ELSE CardEnd(s, i)

REDACTED == <<"[","R","E","D","A","C","T","E","D","]">>

\* re.sub(pat, "[REDACTED]", text) from index i on
RECURSIVE ReSubFrom(_, _, _)
ReSubFrom(pat, s, i) ==
    IF i > Len(s) THEN <<>>
    ELSE LET e == MatchEnd(pat, s, i)
         IN  IF e > 0 THEN REDACTED \o ReSubFrom(pat, s, e)
             ELSE <<s[i]>> \o ReSubFrom(pat, s, i + 1)

ReSub(pat, s) == ReSubFrom(pat, s, 1)

\* the start indices of the matches re.sub replaces
RECURSIVE MatchStartsFrom(_, _, _)
MatchStartsFrom(pat, s, i) ==
    IF i > Len(s) THEN {}
    ELSE LET e == MatchEnd(pat, s, i)
         IN  IF e > 0 THEN {i} \cup MatchStartsFrom(pat, s, e)
             ELSE MatchStartsFrom(pat, s, i + 1)

\* re.search(pat, s) is not None
HasMatch(pat, s) == \E i \in 1..Len(s) : MatchEnd(pat, s, i) > 0

\* for pat in patterns: text = re.sub(pat, "[REDACTED]", text)
RECURSIVE RemovePiiFrom(_, _)
RemovePiiFrom(text, k) ==
    IF k > Len(patterns) THEN text
    ELSE RemovePiiFrom(ReSub(patterns[k], text), k + 1)

remove_pii(text) == RemovePiiFrom(text, 1)

----------------------------------------------------------------------------
(* word_tokenize (NLTK), on texts of one sentence made of letters, digits,  *)
(* "_", white space and the characters the tokenizer always splits off      *)
(* (brackets and ; @ # $ % &): the text is split at white space and each of *)
(* these characters is a token of its own.                                  *)

SplitOff == {"[", "]", "(", ")", "{", "}", "<", ">", ";", "@", "#", "$", "%", "&"}

RECURSIVE TokenizeFrom(_, _, _)
TokenizeFrom(s, i, cur) ==
    LET flush == IF cur = <<>> THEN <<>> ELSE <<cur>> IN
    IF i > Len(s) THEN flush
    ELSE IF IsSpace(s[i]) THEN flush \o TokenizeFrom(s, i + 1, <<>>)
    ELSE IF s[i] \in SplitOff THEN flush \o <<(<<s[i]>>)>> \o TokenizeFrom(s, i + 1, <<>>)
    ELSE TokenizeFrom(s, i + 1, Append(cur, s[i]))

word_tokenize(text) == TokenizeFrom(text, 1, <<>>)

----------------------------------------------------------------------------
(* remove_repetitive_ngrams, merge_dataset.py:97-111 *)

\* the default of the parameter n (line 97)
NGramN == 4

\* nltk.util.ngrams(tokens, n): the windows, in order
NGrams(toks, n) ==
    [w \in 1..Max(Len(toks) - n + 1, 0) |-> SubSeq(toks, w, w + n - 1)]

\* a loop turn without the test of line 105: every n-gram counts as new
NGramStepKeepsRepeats(st, ng) ==
    [seen |-> st.seen \cup {ng}, result |-> Append(st.result, ng[1])]

\* one turn of the loop of lines 104-108 on the n-gram ng
NGramStep(st, ng) ==
    IF ng \in st.seen THEN st
    ELSE [seen |-> st.seen \cup {ng}, result |-> Append(st.result, ng[1])]

\* the loop of lines 104-108 over the n-grams from index w on
RECURSIVE NGramLoop(_, _, _)
NGramLoop(grams, w, st) ==
    IF w > Len(grams) THEN st
    ELSE NGramLoop(grams, w + 1, NGramStep(st, grams[w]))

\* tokens[-(n - 1):]; Python's tokens[-0:] is the whole list
LastTokens(toks, n) ==
    IF n - 1 = 0 \/ n - 1 >= Len(toks) THEN toks
    ELSE SubSeq(toks, Len(toks) - (n - 1) + 1, Len(toks))

\* lines 102-110: the tokens kept
CollapseTokens(toks, n) ==
    NGramLoop(NGrams(toks, n), 1, [seen |-> {}, result |-> <<>>]).result
        \o LastTokens(toks, n)

remove_repetitive_ngrams(text, n) ==
    LET toks == word_tokenize(text)
    IN  IF toks = <<>> THEN text ELSE JoinSpace(CollapseTokens(toks, n))

----------------------------------------------------------------------------
(* get_minhash (merge_dataset.py:114-120) and the datasketch classes it and *)
(* the deduplication loop use.  datasketch works with 32-bit hash values    *)
(* and the Mersenne prime 2^61 - 1, and MinHashLSH cuts the first b * r of  *)
(* the 128 rows of a signature into b bands of r rows; the model keeps the  *)
(* construction and scales the hash values and the bands down.              *)

\* NUM_PERMUTATIONS, line 29: the rows of a signature
NumPerm == 128
\* number of bands b and of rows r per band of MinHashLSH, b * r <= NumPerm
Bands == 2
Rows == 2
\* datasketch _mersenne_prime and _max_hash, scaled
MersennePrime == 31
MaxHash == 15

AllChars == LowerSeq \o UpperSeq \o DigitSeq \o OtherSeq
\* the place of c in AllChars, one more for every other character
CharCode(c) ==
    IF \E k \in 1..Len(AllChars) : AllChars[k] = c
    THEN CHOOSE k \in 1..Len(AllChars) : AllChars[k] = c
    ELSE Len(AllChars) + 1

\* sha1_hash32(token.encode("utf8")): a hash value in 0..MaxHash
RECURSIVE TokenHashFrom(_, _)
TokenHashFrom(t, h) ==
    IF t = <<>> THEN h
    ELSE TokenHashFrom(Tail(t), (h * 31 + CharCode(Head(t))) % (MaxHash + 1))
TokenHash(t) == TokenHashFrom(t, 7)

\* MinHash.update: the permuted value in row k of the hash value hv of a
\* token, with the permutation parameters (a, b) of row k
PermutedHash(hv, k) ==
    LET a == 1 + ((3 * k) % (MersennePrime - 1))
        b == (5 * k + 2) % MersennePrime
    IN  ((a * hv + b) % MersennePrime) % (MaxHash + 1)

\* set(word_tokenize(text.lower()))
TokenSet(text) == Range(word_tokenize(Lower(text)))

\* get_minhash without text.lower()
get_minhash_cased(text) ==
    LET hvs == {TokenHash(t) : t \in Range(word_tokenize(text))}
    IN  [k \in 1..NumPerm |-> MinSet({MaxHash} \cup {PermutedHash(hv, k) : hv \in hvs})]

\* get_minhash: row k holds the minimum over the tokens, MaxHash when there are none
get_minhash(text) ==
    LET hvs == {TokenHash(t) : t \in TokenSet(text)}
    IN  [k \in 1..NumPerm |-> MinSet({MaxHash} \cup {PermutedHash(hv, k) : hv \in hvs})]

\* the bucket key of band b: hashvalues[start:end]
BandKey(mh, b) == [j \in 1..Rows |-> mh[(b - 1) * Rows + j]]

\* MinHashLSH(threshold, num_perm): no key, empty hash tables
LshEmpty == [keys |-> {}, hashtables |-> [b \in 1..Bands |-> {}]]

\* a query that wants the signature to collide in every band
LshQueryEveryBand(index, mh) ==
    {key \in index.keys : \A b \in 1..Bands : <<BandKey(mh, b), key>> \in index.hashtables[b]}

\* MinHashLSH.query: the keys found in the bucket of mh in some band
LshQuery(index, mh) ==
    {e[2] : e \in UNION {{x \in index.hashtables[b] : x[1] = BandKey(mh, b)} : b \in 1..Bands}}

\* MinHashLSH.insert raises ValueError when the key is already in the index
LshInsertRaises(index, key) == key \in index.keys

\* MinHashLSH.insert: the key goes into the bucket of mh in every band
LshInsert(index, key, mh) ==
    [keys |-> index.keys \cup {key},
     hashtables |-> [b \in 1..Bands |-> index.hashtables[b] \cup {<<BandKey(mh, b), key>>}]]

\* a key that does not depend on len(deduped)
DocKeyFixed(k) == <<"doc_", 0>>

\* f"doc_{len(deduped)}"
DocKey(k) == <<"doc_", k>>

----------------------------------------------------------------------------
(* The script, merge_dataset.py:135-189, from the loaded all_texts on.      *)

\* the most documents a run loads
MaxDocs == 3

\* the length a string field must exceed to be loaded (lines 47, 50, 55, 59)
MinFieldLen == 50

\* A loaded field is longer than MinFieldLen: the documents are short texts
\* followed by the white space that makes them long enough.
Padded(d) == d \o [k \in 1..(MinFieldLen + 1 - Len(d)) |-> " "]

\* the raw documents a run may load: a b, B a, b, <i>a, <i>, a 5555555555,
\* a a a a a, 7, a text with a lone surrogate, and a marked section that
\* html.parser does not know
DocPool ==
    { Padded(<<"a"," ","b">>),
      Padded(<<"B"," ","a">>),
      Padded(<<"b">>),
      Padded(<<"<","i",">","a">>),
      Padded(<<"<","i",">">>),
      Padded(<<"a"," ","5","5","5","5","5","5","5","5","5","5">>),
      Padded(<<"a"," ","a"," ","a"," ","a"," ","a">>),
      Padded(<<"7">>),
      Padded(<<"a", " ", Chr(55357)>>),
      Padded(<<"<", "!", "[", "a", "[">>) }

\* LANGUAGE_FILTER, line 30
LANGUAGE_FILTER == {"en"}

\* What langdetect.detect(text) may do: it raises on a text with no letter
\* ("No features in text") and returns a language code otherwise.
DetectOutcomes(text) ==
    IF \E k \in 1..Len(text) : text[k] \in Letters THEN {"en", "fr"} ELSE {"raise"}

\* detect_language without its try/except
detect_language_unguarded(outcome) == outcome

\* detect_language, lines 69-74: the try/except turns a raise into "unknown"
detect_language(outcome) == IF outcome = "raise" THEN "unknown" ELSE outcome

\* a language filter that lets every document through
KeepEvery(texts, codes) == texts

\* [t for t in all_texts if detect_language(t) in LANGUAGE_FILTER], line 137
RECURSIVE KeepAllowed(_, _)
KeepAllowed(texts, codes) ==
    IF texts = <<>> THEN <<>>
    ELSE IF Head(codes) \in LANGUAGE_FILTER
         THEN <<Head(texts)>> \o KeepAllowed(Tail(texts), Tail(codes))
         ELSE KeepAllowed(Tail(texts), Tail(codes))

\* the script's variables other than all_texts before Step 1
PipeRestInit ==
    /\ langs = <<>>
    /\ lang_filtered = <<>>
    /\ cleaned = <<>>
    /\ lsh = LshEmpty
    /\ deduped = <<>>
    /\ verdicts = <<>>
    /\ no_pii = <<>>
    /\ final_texts = <<>>
    /\ outfile = [opened |-> FALSE, data |-> <<>>]
    /\ stats = [written |-> FALSE]
    /\ error = "none"

\* the variables of every part of the program other than the running one
OthersIdle(running) ==
    /\ IF running \in {"pipe", "load"} THEN TRUE
       ELSE pc = "idle" /\ all_texts = <<>> /\ PipeRestInit
    /\ IF running = "load" THEN TRUE
       ELSE /\ fidx = 0 /\ lpc = "idle" /\ docs = <<>> /\ file_lines = <<>>
            /\ nread = 0 /\ console = <<>> /\ returned = <<>>
    /\ IF running = "strip" THEN TRUE
       ELSE strip_arg = <<>> /\ strip_results = <<>>
    /\ IF running = "collapse" THEN TRUE
       ELSE /\ tokens = <<>> /\ seen = {} /\ result = <<>> /\ ng_idx = 0
            /\ collapse_pc = "idle"
    /\ IF running = "pii" THEN TRUE
       ELSE pii_text = <<>> /\ pii_hist = <<>>

Init ==
    /\ pc = "lang"
    /\ all_texts \in ListsOf(DocPool, MaxDocs)
    /\ PipeRestInit
    /\ OthersIdle("pipe")

\* Step 1, line 137.  detect is seeded (line 15), so a text has one outcome
\* per run; an exception that leaves detect_language ends the script.
LangFilter ==
    /\ pc = "lang"
    /\ \E det \in [Range(all_texts) -> {"en", "fr", "raise"}] :
          /\ \A t \in Range(all_texts) : det[t] \in DetectOutcomes(t)
          /\ LET codes == [k \in 1..Len(all_texts) |-> detect_language(det[all_texts[k]])]
             IN  IF \E k \in 1..Len(codes) : codes[k] = "raise"
                 THEN /\ pc' = "aborted"
                      /\ error' = "LangDetectException"
                      /\ UNCHANGED <<langs, lang_filtered>>
                 ELSE /\ pc' = "strip"
                      /\ langs' = codes
                      /\ lang_filtered' = KeepAllowed(all_texts, codes)
                      /\ error' = error
    /\ UNCHANGED <<all_texts, cleaned, lsh, deduped, verdicts, no_pii, final_texts,
                   outfile, stats>>
    /\ UNCHANGED <<loadVars, stripVars, collapseVars, piiVars>>

\* the exception of the first text of texts that strip_html raises on,
\* "none" when it returns on every one
RECURSIVE StripError(_)
StripError(texts) ==
    IF texts = <<>> THEN "none"
    ELSE IF strip_html(Head(texts)).err # "none" THEN strip_html(Head(texts)).err
    ELSE StripError(Tail(texts))

\* Step 2, line 141: an exception that leaves strip_html ends the script
StripAll ==
    /\ pc = "strip"
    /\ error' = StripError(lang_filtered)
    /\ IF error' = "none"
       THEN /\ cleaned' = [k \in 1..Len(lang_filtered) |-> strip_html(lang_filtered[k]).text]
            /\ pc' = "dedup"
       ELSE /\ pc' = "aborted"
            /\ cleaned' = cleaned
    /\ UNCHANGED <<all_texts, langs, lang_filtered, lsh, deduped, verdicts, no_pii,
                   final_texts, outfile, stats>>
    /\ UNCHANGED <<loadVars, stripVars, collapseVars, piiVars>>

\* the surrogate code points, which t.encode("utf8") of line 119 refuses
Surrogates == {Chr(n) : n \in 55296..57343}

\* Step 3, one turn of the loop of lines 148-153
DedupStep ==
    /\ pc = "dedup"
    /\ Len(verdicts) < Len(cleaned)
    /\ LET text == cleaned[Len(verdicts) + 1]
           mh   == get_minhash(text)
           key  == DocKey(Len(deduped))
       IN  IF \E k \in 1..Len(text) : text[k] \in Surrogates
           THEN /\ pc' = "aborted"
                /\ error' = "UnicodeEncodeError"
                /\ UNCHANGED <<lsh, deduped, verdicts>>
           ELSE IF LshQuery(lsh, mh) = {}
           THEN IF LshInsertRaises(lsh, key)
                THEN /\ pc' = "aborted"
                     /\ error' = "ValueError"
                     /\ UNCHANGED <<lsh, deduped, verdicts>>
                ELSE /\ lsh' = LshInsert(lsh, key, mh)
                     /\ deduped' = Append(deduped, text)
                     /\ verdicts' = Append(verdicts, TRUE)
                     /\ UNCHANGED <<pc, error>>
           ELSE /\ verdicts' = Append(verdicts, FALSE)
                /\ UNCHANGED <<lsh, deduped, pc, error>>
    /\ UNCHANGED <<all_texts, langs, lang_filtered, cleaned, no_pii, final_texts,
                   outfile, stats>>
    /\ UNCHANGED <<loadVars, stripVars, collapseVars, piiVars>>

\* Step 4, line 158, once the loop has ended
RemovePii ==
    /\ pc = "dedup"
    /\ Len(verdicts) = Len(cleaned)
    /\ no_pii' = [k \in 1..Len(deduped) |-> remove_pii(deduped[k])]
    /\ pc' = "ngrams"
    /\ UNCHANGED <<all_texts, langs, lang_filtered, cleaned, lsh, deduped, verdicts,
                   final_texts, outfile, stats, error>>
    /\ UNCHANGED <<loadVars, stripVars, collapseVars, piiVars>>

\* Step 5, line 161
RemoveNgrams ==
    /\ pc = "ngrams"
    /\ final_texts' = [k \in 1..Len(no_pii) |-> remove_repetitive_ngrams(no_pii[k], NGramN)]
    /\ pc' = "write"
    /\ UNCHANGED <<all_texts, langs, lang_filtered, cleaned, lsh, deduped, verdicts,
                   no_pii, outfile, stats, error>>
    /\ UNCHANGED <<loadVars, stripVars, collapseVars, piiVars>>

\* a writer that ends a document with one newline only
BlockOneNewline(doc) == Strip(doc) \o <<"\n">>

\* out.write(doc.strip() + "\n\n"), line 167
Block(doc) == Strip(doc) \o <<"\n", "\n">>

\* what the loop of lines 166-167 writes for texts
FileText(texts) == Flatten([k \in 1..Len(texts) |-> Block(texts[k])])

\* Step 6, lines 165-167: the file is opened and every block written
WriteCorpus ==
    /\ pc = "write"
    /\ outfile' = [opened |-> TRUE, data |-> FileText(final_texts)]
    /\ pc' = "stats"
    /\ UNCHANGED <<all_texts, langs, lang_filtered, cleaned, lsh, deduped, verdicts,
                   no_pii, final_texts, stats, error>>
    /\ UNCHANGED <<loadVars, stripVars, collapseVars, piiVars>>

\* line 165: open() raises, the script ends there
WriteCorpusFails ==
    /\ pc = "write"
    /\ pc' = "aborted"
    /\ error' = "OSError"
    /\ UNCHANGED <<all_texts, langs, lang_filtered, cleaned, lsh, deduped, verdicts,
                   no_pii, final_texts, outfile, stats>>
    /\ UNCHANGED <<loadVars, stripVars, collapseVars, piiVars>>

\* lines 165-167: open() succeeds and the device fails under a write or
\* under the flush of the close; the file keeps what reached it, less than
\* the whole text, and the script ends there
WriteCorpusBreaks ==
    /\ pc = "write"
    /\ \E n \in 0..(Len(FileText(final_texts)) - 1) :
          outfile' = [opened |-> TRUE, data |-> SubSeq(FileText(final_texts), 1, n)]
    /\ pc' = "aborted"
    /\ error' = "OSError"
    /\ UNCHANGED <<all_texts, langs, lang_filtered, cleaned, lsh, deduped, verdicts,
                   no_pii, final_texts, stats>>
    /\ UNCHANGED <<loadVars, stripVars, collapseVars, piiVars>>

\* sum(len(word_tokenize(t)) for t in texts), lines 171-172
TokenCount(texts) == SumSeq([k \in 1..Len(texts) |-> Len(word_tokenize(texts[k]))])

\* lines 171-173; removed_pct is the exact fraction pct_num / pct_den
ComputeStats(cleanedTexts, finalTexts, nAll, nLang) ==
    LET original_tokens == TokenCount(cleanedTexts)
        final_tokens    == TokenCount(finalTexts)
        den             == Max(original_tokens, 1)
    IN  [written |-> TRUE,
         n_original |-> nAll,
         n_lang |-> nLang,
         n_dedup |-> Len(finalTexts),
         original_tokens |-> original_tokens,
         final_tokens |-> final_tokens,
         pct_num |-> 100 * (den - final_tokens),
         pct_den |-> den]

\* Step 7, lines 171-186
WriteStats ==
    /\ pc = "stats"
    /\ stats' = ComputeStats(cleaned, final_texts, Len(all_texts), Len(lang_filtered))
    /\ pc' = "done"
    /\ UNCHANGED <<all_texts, langs, lang_filtered, cleaned, lsh, deduped, verdicts,
                   no_pii, final_texts, outfile, error>>
    /\ UNCHANGED <<loadVars, stripVars, collapseVars, piiVars>>

\* lines 185-186: open() or the write raises, the script ends there with the
\* corpus written and without a complete report
WriteStatsFails ==
    /\ pc = "stats"
    /\ pc' = "aborted"
    /\ error' = "OSError"
    /\ UNCHANGED <<all_texts, langs, lang_filtered, cleaned, lsh, deduped, verdicts,
                   no_pii, final_texts, outfile, stats>>
    /\ UNCHANGED <<loadVars, stripVars, collapseVars, piiVars>>

Next ==
    \/ LangFilter
    \/ StripAll
    \/ DedupStep
    \/ RemovePii
    \/ RemoveNgrams
    \/ WriteCorpus
    \/ WriteCorpusFails
    \/ WriteCorpusBreaks
    \/ WriteStats
    \/ WriteStatsFails

Spec == Init /\ [][Next]_vars

----------------------------------------------------------------------------
(* Claims about the script (specification Spec).                           *)

\* strip_html of each document a run may load
StrippedDoc == [d \in DocPool |-> strip_html(d)]

\* get_minhash of each stripped document
SignatureOf == [t \in {StrippedDoc[d].text : d \in DocPool} |-> get_minhash(t)]

\* the documents the loop has accepted among the first q it processed
AcceptedUpTo(q) == {p \in 1..q : verdicts[p]}

\* the signatures of the documents at positions p and q collide in some band
SharesBucket(p, q) ==
    LET mp == SignatureOf[cleaned[p]]
        mq == SignatureOf[cleaned[q]]
    IN  \E b \in 1..Bands : BandKey(mp, b) = BandKey(mq, b)

\* C1: deduped never holds two documents with the same token set; a document
\* whose text equals the text of an earlier document (accepted or dropped,
\* the empty document included) is dropped, and the same text fed twice
\* leaves exactly one copy.
C1_NoDuplicateSurvives ==
    /\ \A i, j \in 1..Len(deduped) :
          i < j => TokenSet(deduped[i]) # TokenSet(deduped[j])
    /\ \A p, q \in 1..Len(verdicts) :
          (p < q /\ cleaned[p] = cleaned[q]) => ~verdicts[q]
    /\ (Len(cleaned) = 2 /\ Len(verdicts) = 2 /\ cleaned[1] = cleaned[2])
          => deduped = <<cleaned[1]>>

\* a text met a second time after its first copy was itself dropped, and an
\* empty document met a second time
C1_Witness ==
    \/ /\ verdicts = <<TRUE, FALSE, FALSE>>
       /\ cleaned[2] = cleaned[3]
    \/ /\ verdicts = <<TRUE, FALSE>>
       /\ cleaned = << <<>>, <<>> >>

\* C2: a document is dropped exactly when one of its band buckets holds the
\* key of a document accepted before it; an accepted document is in every one
\* of its band buckets; no bucket holds two accepted documents; a dropped
\* document is in no bucket.  The index is compared with the signatures in
\* every state of the loop, the one after its last turn included, and again
\* at the end of the run; the stages in between leave it alone (C13).
C2_FirstClaimWins ==
    LET mh == [q \in 1..Len(verdicts) |-> SignatureOf[cleaned[q]]]
    IN  pc \in {"dedup", "done"} =>
        /\ \A q \in 1..Len(verdicts) :
              verdicts[q] <=>
                  ~(\E p \in AcceptedUpTo(q - 1) :
                        \E b \in 1..Bands : BandKey(mh[p], b) = BandKey(mh[q], b))
        /\ \A b \in 1..Bands :
              lsh.hashtables[b] =
                  {<<BandKey(mh[q], b), DocKey(Cardinality(AcceptedUpTo(q - 1)))>> :
                      q \in AcceptedUpTo(Len(verdicts))}
        /\ \A b \in 1..Bands : \A x, y \in lsh.hashtables[b] : x[1] = y[1] => x = y

\* the third document shares a band with the dropped second one, with no
\* accepted one, and is accepted
C2_Witness ==
    /\ verdicts = <<TRUE, FALSE, TRUE>>
    /\ SharesBucket(2, 3)
    /\ ~SharesBucket(1, 3)

\* the indices of all_texts whose language is allowed
AllowedIdx == {k \in 1..Len(langs) : langs[k] \in LANGUAGE_FILTER}

\* C3: deduped is a subsequence of cleaned, cleaned is strip_html of
\* lang_filtered position by position, lang_filtered is a subsequence of
\* all_texts, final_texts[i] is the redacted and collapsed deduped[i], and
\* the file, once the writer has gone through final_texts, holds one block
\* per entry, in order, each the entry followed by one blank line; whatever
\* the file holds at any time is the beginning of that text.
C3_OrderPreserved ==
    /\ IsSubseq(lang_filtered, all_texts)
    /\ pc \in {"dedup", "ngrams", "write", "stats", "done"} =>
          /\ Len(cleaned) = Len(lang_filtered)
          /\ \A k \in 1..Len(cleaned) : cleaned[k] = StrippedDoc[lang_filtered[k]].text
    /\ IsSubseq(deduped, cleaned)
    /\ pc \in {"write", "stats", "done"} =>
          /\ Len(final_texts) = Len(deduped)
          /\ \A i \in 1..Len(deduped) :
                final_texts[i] = remove_repetitive_ngrams(remove_pii(deduped[i]), NGramN)
    /\ pc \in {"stats", "done"} =>
          outfile.data =
              Flatten([k \in 1..Len(final_texts) |-> final_texts[k] \o <<"\n", "\n">>])
    /\ outfile.opened =>
          /\ pc \in {"stats", "done", "aborted"}
          /\ Len(outfile.data) <= Len(FileText(final_texts))
          /\ outfile.data = SubSeq(FileText(final_texts), 1, Len(outfile.data))

\* a written corpus of two documents out of three cleaned ones, the first of
\* them changed by the redaction
C3_Witness ==
    /\ outfile.opened
    /\ verdicts = <<TRUE, FALSE, TRUE>>
    /\ Len(final_texts) = 2
    /\ final_texts[1] # deduped[1]

\* C4: the final token count is at most the original token count and
\* removed_pct = 100 * (1 - final / max(original, 1)) lies in [0, 100].
C4_StatsConsistent ==
    stats.written =>
        /\ stats.final_tokens <= stats.original_tokens
        /\ 0 <= stats.pct_num
        /\ stats.pct_num <= 100 * stats.pct_den

\* C7: no exception leaves detect_language, a text the detector fails on is
\* classified unknown, and lang_filtered holds exactly the documents
\* classified as a member of the allow-set {en}, in order.
C7_LangFilterSafe ==
    /\ error # "LangDetectException"
    /\ pc # "lang" =>
          /\ Len(langs) = Len(all_texts)
          /\ \A k \in 1..Len(langs) :
                DetectOutcomes(all_texts[k]) = {"raise"} => langs[k] = "unknown"
          /\ "unknown" \notin LANGUAGE_FILTER
          /\ Len(lang_filtered) = Cardinality(AllowedIdx)
          /\ \A k \in AllowedIdx :
                lang_filtered[Cardinality({j \in AllowedIdx : j <= k})] = all_texts[k]

\* the detector failed on one document, found another language for a second
\* and English for a third
C7_Witness ==
    /\ pc = "strip"
    /\ {"unknown", "fr", "en"} \subseteq Range(langs)
    /\ Len(lang_filtered) = 1

----------------------------------------------------------------------------
(* strip_html applied to a text and then to its own result (specification   *)
(* SpecStrip).                                                              *)

\* the most pieces a text given to strip_html is made of
MaxPieces == 3

\* the pieces: a start tag, an end tag, the opening of a marked section,
\* entity references, an entity name without its "&", a character
\* reference, a reference to a space that is not ASCII, a letter and a space
StripPieces ==
    { <<"<","t",">">>, <<"<","/","t",">">>, <<"<","!","[">>,
      <<"&","l","t",";">>, <<"&","g","t",";">>,
      <<"&","a","m","p",";">>, <<"l","t",";">>, <<"&","#","6","0",";">>,
      <<"&","n","b","s","p",";">>, <<"t">>, <<" ">> }

\* a decimal character reference of one digit more than int() converts
LongCharRef == <<"&", "#">> \o [k \in 1..(MaxIntDigits + 1) |-> "1"] \o <<";">>

InitStrip ==
    /\ strip_arg \in Concats(StripPieces, MaxPieces) \cup {LongCharRef}
    /\ strip_results = <<>>
    /\ OthersIdle("strip")

\* strip_html(text), lines 77-82
StripFirst ==
    /\ strip_results = <<>>
    /\ strip_results' = <<strip_html(strip_arg)>>
    /\ UNCHANGED <<strip_arg, pipeVars, loadVars, collapseVars, piiVars>>

\* strip_html applied to the text strip_html returned
StripAgain ==
    /\ Len(strip_results) = 1
    /\ strip_results[1].err = "none"
    /\ strip_results' = Append(strip_results, strip_html(strip_results[1].text))
    /\ UNCHANGED <<strip_arg, pipeVars, loadVars, collapseVars, piiVars>>

NextStrip == StripFirst \/ StripAgain

SpecStrip == InitStrip /\ [][NextStrip]_vars

\* C5: strip_html(strip_html(x)) = strip_html(x) for every text x, texts with
\* entity-encoded markup included.
C5_StripIdempotent ==
    Len(strip_results) = 2 => strip_results[2] = strip_results[1]

\* the text of the claim's case, &lt;t&gt;: the first pass leaves the tag <t>,
\* the second pass removes it
C5_EntityMarkupCase ==
    /\ strip_arg = <<"&","l","t",";","t","&","g","t",";">>
    /\ strip_results = <<Returned(<<"<","t",">">>), Returned(<<>>)>>

----------------------------------------------------------------------------
(* remove_repetitive_ngrams, one loop turn at a time (specification         *)
(* SpecCollapse).                                                           *)

\* the most tokens of a text given to remove_repetitive_ngrams
MaxToks == 6

\* the tokens a b c d a b c d e
ExampleTokens == <<<<"a">>, <<"b">>, <<"c">>, <<"d">>, <<"a">>, <<"b">>, <<"c">>, <<"d">>, <<"e">>>>

\* lines 99, 102, 103
InitCollapse ==
    /\ tokens \in ListsOf({<<"a">>, <<"b">>, <<"c">>}, MaxToks) \cup {ExampleTokens}
    /\ seen = {}
    /\ result = <<>>
    /\ ng_idx = 0
    /\ collapse_pc = "loop"
    /\ OthersIdle("collapse")

\* lines 100-101: no token, the text is returned as it is
ReturnText ==
    /\ collapse_pc = "loop"
    /\ tokens = <<>>
    /\ collapse_pc' = "done"
    /\ UNCHANGED <<tokens, seen, result, ng_idx>>
    /\ UNCHANGED <<pipeVars, loadVars, stripVars, piiVars>>

\* one turn of the loop of lines 104-108
NgramTurn ==
    /\ collapse_pc = "loop"
    /\ tokens # <<>>
    /\ ng_idx < Len(NGrams(tokens, NGramN))
    /\ LET st == NGramStep([seen |-> seen, result |-> result],
                           NGrams(tokens, NGramN)[ng_idx + 1])
       IN  /\ seen' = st.seen
           /\ result' = st.result
    /\ ng_idx' = ng_idx + 1
    /\ UNCHANGED <<tokens, collapse_pc>>
    /\ UNCHANGED <<pipeVars, loadVars, stripVars, piiVars>>

\* line 110, after the loop
ExtendLast ==
    /\ collapse_pc = "loop"
    /\ tokens # <<>>
    /\ ng_idx = Len(NGrams(tokens, NGramN))
    /\ result' = result \o LastTokens(tokens, NGramN)
    /\ collapse_pc' = "done"
    /\ UNCHANGED <<tokens, seen, ng_idx>>
    /\ UNCHANGED <<pipeVars, loadVars, stripVars, piiVars>>

NextCollapse == ReturnText \/ NgramTurn \/ ExtendLast

SpecCollapse == InitCollapse /\ [][NextCollapse]_vars

\* the window positions whose n-gram occurs at no earlier position
FirstWindows ==
    LET Window(w) == SubSeq(tokens, w, w + NGramN - 1)
    IN  {w \in 1..(Len(tokens) - NGramN + 1) : \A v \in 1..(w - 1) : Window(v) # Window(w)}

\* the j-th smallest element of a set of numbers
Nth(S, j) == CHOOSE w \in S : Cardinality({v \in S : v <= w}) = j

\* C6: for L >= n tokens the result is the first token of every window whose
\* n-gram has not occurred at an earlier window, in order, followed by the
\* last n-1 tokens; a b c d a b c d e gives the 8 tokens a b c d b c d e, one
\* a dropped; the text returned is these tokens joined by spaces.
C6_CollapseRule ==
    /\ (collapse_pc = "done" /\ Len(tokens) >= NGramN) =>
          /\ result = [j \in 1..Cardinality(FirstWindows) |-> tokens[Nth(FirstWindows, j)]]
                        \o SubSeq(tokens, Len(tokens) - NGramN + 2, Len(tokens))
          /\ remove_repetitive_ngrams(JoinSpace(tokens), NGramN) = JoinSpace(result)
    /\ (collapse_pc = "done" /\ tokens = ExampleTokens) =>
          /\ result = <<<<"a">>, <<"b">>, <<"c">>, <<"d">>, <<"b">>, <<"c">>, <<"d">>, <<"e">>>>
          /\ Len(result) = 8

\* the example has been collapsed: the fifth window repeats the first
C6_Witness ==
    /\ collapse_pc = "done"
    /\ tokens = ExampleTokens
    /\ 5 \notin FirstWindows
    /\ Len(result) = Len(tokens) - 1

----------------------------------------------------------------------------
(* remove_pii, one pattern at a time (specification SpecPII).               *)

\* the most pieces a text given to remove_pii is made of
MaxPiiPieces == 3

\* the pieces: an e-mail address, a phone number, a 13-digit number, the
\* characters they are made of, and a letter, a digit and a space that are
\* not ASCII (U+00E9, U+0665, U+00A0)
PiiPieces ==
    { <<"a","@","a",".","a">>,
      <<"5","5","5","-","5","5","5","-","5","5","5","5">>,
      <<"5","5","5","5","5","5","5","5","5","5","5","5","5">>,
      <<" ">>, <<"-">>, <<"5">>, <<"a">>, <<"@">>, <<".">>,
      <<Chr(233)>>, <<Chr(1637)>>, <<Chr(160)>> }

\* contact a@b.com or 555-123-4567
ExampleText ==
    <<"c","o","n","t","a","c","t"," ","a","@","b",".","c","o","m"," ","o","r"," ",
      "5","5","5","-","1","2","3","-","4","5","6","7">>

\* contact [REDACTED] or [REDACTED]
ExampleRedacted ==
    <<"c","o","n","t","a","c","t"," ">> \o REDACTED \o <<" ","o","r"," ">> \o REDACTED

InitPII ==
    /\ pii_text \in Concats(PiiPieces, MaxPiiPieces) \cup {ExampleText}
    /\ pii_hist = <<pii_text>>
    /\ OthersIdle("pii")

\* one turn of the loop of lines 92-93
SubPattern ==
    /\ pii_hist # <<>>
    /\ Len(pii_hist) <= Len(patterns)
    /\ pii_text' = ReSub(patterns[Len(pii_hist)], pii_text)
    /\ pii_hist' = Append(pii_hist, pii_text')
    /\ UNCHANGED <<pipeVars, loadVars, stripVars, collapseVars>>

NextPII == SubPattern

SpecPII == InitPII /\ [][NextPII]_vars

\* the characters of [REDACTED]; the texts given to remove_pii hold none
RedactedChars == Range(REDACTED)

\* the positions of s where a copy of [REDACTED] starts
RedactedAt(s) ==
    {i \in 1..(Len(s) - Len(REDACTED) + 1) : SubSeq(s, i, i + Len(REDACTED) - 1) = REDACTED}

\* C10: the e-mail, phone and card patterns are applied in that order, each
\* to the text the earlier ones left, every match replaced by [REDACTED]; no
\* match of a pattern touches a [REDACTED] an earlier pattern inserted, and
\* every such token is still there afterwards; the example ends as
\* contact [REDACTED] or [REDACTED] with no e-mail or phone match left.
C10_RedactionOrder ==
    LET order == <<"email", "phone", "card">> IN
    /\ \A k \in 1..(Len(pii_hist) - 1) :
          LET before == pii_hist[k]
              after  == pii_hist[k + 1]
              starts == MatchStartsFrom(order[k], before, 1)
          IN  /\ after = ReSub(order[k], before)
              /\ \A i \in starts :
                    \A j \in i..(MatchEnd(order[k], before, i) - 1) :
                        before[j] \notin RedactedChars
              /\ Cardinality(RedactedAt(after))
                    = Cardinality(RedactedAt(before)) + Cardinality(starts)
              /\ \A j \in 1..Len(after) :
                    after[j] = "[" => j \in RedactedAt(after)
    /\ (Len(pii_hist) = 4 /\ pii_hist[1] = ExampleText) =>
          /\ pii_hist[4] = ExampleRedacted
          /\ pii_text = ExampleRedacted
          /\ ~HasMatch("email", pii_text)
          /\ ~HasMatch("phone", pii_text)

\* a text with an e-mail address and a phone number: the phone pattern ran
\* on a text that already held a [REDACTED], and the card pattern on two
C10_Witness ==
    /\ Len(pii_hist) = 4
    /\ Cardinality(RedactedAt(pii_hist[2])) = 1
    /\ Cardinality(RedactedAt(pii_hist[3])) = 2
    /\ pii_hist[1] = ExampleText

----------------------------------------------------------------------------
(* json.loads (line 42) on a line of text.  A parsed value is a record: t   *)
(* is its type, s the characters of a string, number or constant, items the *)
(* items of a list or the members of a dict, in the order of the text.      *)
(* Lists of one item, one in the other, are kept as their number, wraps,    *)
(* and the item of the innermost of them: a list with wraps = 3 and items   *)
(* <<v>> is [[[v]]]; every level is kept, whatever their number.  The item  *)
(* of such a record is never a list of one item itself, and every other     *)
(* value has wraps = 0.                                                     *)

Quote == "\""

JsonVal(t, s, items) == [t |-> t, s |-> s, items |-> items, wraps |-> 0]

\* the value v as the only item of a list, c times over
Wrap(v, c) ==
    IF c = 0 THEN v
    ELSE IF v.wraps > 0 THEN [v EXCEPT !.wraps = @ + c]
    ELSE [t |-> "list", s |-> <<>>, items |-> <<v>>, wraps |-> c]

\* the list of the items
JsonList(items) ==
    IF Len(items) = 1 THEN Wrap(items[1], 1) ELSE JsonVal("list", <<>>, items)

\* the items of a list, as values
Items(v) ==
    IF v.wraps > 1 THEN <<[v EXCEPT !.wraps = @ - 1]>> ELSE v.items

\* a parse that raised: JSONDecodeError, or ValueError or RecursionError
ParseRaise(e) == [ok |-> FALSE, err |-> e, val |-> JsonVal("null", <<>>, <<>>), next |-> 0]

\* JSONDecodeError raised by the Python code of the decoder, outside the
\* scanner: "Expecting value" (raw_decode, after the StopIteration of
\* scan_once) and "Extra data" (decode)
ParseFail == ParseRaise("JSONDecodeError")
ParseOk(v, n) == [ok |-> TRUE, err |-> "none", val |-> v, next |-> n]

\* the nesting at which the scanner of json.loads, called from load_file
\* called from the script, exceeds the interpreter's recursion limit of 1000
\* on entering one more array or object
NestingLimit == 995

\* the nesting from which the scanner cannot raise a JSONDecodeError of its
\* own: the exception is built by Python code (JSONDecodeError.__init__),
\* the call of which exceeds the recursion limit
ErrmsgLimit == 992

\* raise_errmsg of the scanner inside d open arrays and objects
\* ("Unterminated string", "Invalid control character", "Invalid \\escape",
\* "Expecting ',' delimiter", "Expecting ':' delimiter", "Expecting property
\* name enclosed in double quotes")
ScanFail(d) == IF d >= ErrmsgLimit THEN ParseRaise("RecursionError") ELSE ParseFail

\* the index of the first character that is not white space, from i on
SkipWs(s, i) == RunEnd(s, i, {" ", "\t", "\n", "\r"})

\* the characters U+0000 to U+001F, which scanstring refuses in a string
ControlChars == {Chr(n) : n \in 0..31}

\* _decode_uXXXX: the number of the escape whose backslash is at i, -1 when
\* the four characters after "\u" are not four hexadecimal digits
DecodeU(s, i) ==
    IF i + 5 > Len(s) \/ s[i] # "\\" \/ s[i + 1] # "u" THEN -1
    ELSE LET h == [k \in 1..4 |-> HexVal(s[i + 1 + k])]
         IN  IF \E k \in 1..4 : h[k] < 0 THEN -1
             ELSE 4096 * h[1] + 256 * h[2] + 16 * h[3] + h[4]

\* BACKSLASH: the character of a one-letter escape, "" when it is no escape
SimpleEscape(c) ==
    IF c \in {Quote, "\\", "/"} THEN c
    ELSE IF c = "b" THEN Chr(8)
    ELSE IF c = "f" THEN "\f"
    ELSE IF c = "n" THEN "\n"
    ELSE IF c = "r" THEN "\r"
    ELSE IF c = "t" THEN "\t"
    ELSE ""

\* scanstring from index k on, acc the characters decoded so far, inside d
\* open arrays and objects
RECURSIVE ScanString(_, _, _, _)
ScanString(s, k, acc, d) ==
    LET j == FindIn(s, {Quote, "\\"} \cup ControlChars, k)
        chunk == acc \o SubSeq(s, k, j - 1)
    IN  IF j > Len(s) THEN ScanFail(d)
        ELSE IF s[j] = Quote THEN ParseOk(JsonVal("str", chunk, <<>>), j + 1)
        ELSE IF s[j] # "\\" \/ j + 1 > Len(s) THEN ScanFail(d)
        ELSE IF s[j + 1] # "u" THEN
            IF SimpleEscape(s[j + 1]) = "" THEN ScanFail(d)
            ELSE ScanString(s, j + 2, Append(chunk, SimpleEscape(s[j + 1])), d)
        ELSE LET uni  == DecodeU(s, j)
                 uni2 == DecodeU(s, j + 6)
             IN  IF uni < 0 THEN ScanFail(d)
                 ELSE IF uni \in 55296..56319 /\ uni2 \in 56320..57343
                 THEN ScanString(s, j + 12,
                          Append(chunk, Chr(65536 + (uni - 55296) * 1024 + (uni2 - 56320))), d)
                 ELSE ScanString(s, j + 6, Append(chunk, Chr(uni)), d)

\* scanstring: s[i] is the opening quote
ParseString(s, i, d) == ScanString(s, i + 1, <<>>, d)

\* NUMBER_RE, (-?(?:0|[1-9]\d*))(\.\d+)?([eE][-+]?\d+)?, at index i, where
\* s[i] is "-" or a digit: a number without fraction and exponent goes
\* through int(), which raises ValueError above MaxIntDigits digits
ParseNumber(s, i) ==
    LET n == Len(s)
        d == IF s[i] = "-" THEN i + 1 ELSE i
        e == IF d > n \/ s[d] \notin AsciiDigits THEN d
             ELSE IF s[d] = "0" THEN d + 1 ELSE RunEnd(s, d, AsciiDigits)
        f == IF e + 1 <= n /\ s[e] = "." /\ s[e + 1] \in AsciiDigits
             THEN RunEnd(s, e + 1, AsciiDigits) ELSE e
        g == IF f <= n /\ s[f] \in {"e", "E"}
             THEN IF f + 1 <= n /\ s[f + 1] \in {"-", "+"} THEN f + 2 ELSE f + 1
             ELSE f
        x == IF g > f /\ g <= n /\ s[g] \in AsciiDigits THEN RunEnd(s, g, AsciiDigits) ELSE f
    IN  IF e = d THEN ParseFail
        ELSE IF x = e /\ e - d > MaxIntDigits THEN ParseRaise("ValueError")
        ELSE ParseOk(JsonVal("num", SubSeq(s, i, x - 1), <<>>), x)

\* the constant that starts at i: null, true, false, NaN, Infinity and
\* -Infinity; <<>> when there is none
LiteralAt(s, i) ==
    LET literals == { <<"n","u","l","l">>, <<"t","r","u","e">>, <<"f","a","l","s","e">>,
                      <<"N","a","N">>, <<"I","n","f","i","n","i","t","y">>,
                      <<"-","I","n","f","i","n","i","t","y">> }
        found == {w \in literals : i + Len(w) - 1 <= Len(s) /\ SubSeq(s, i, i + Len(w) - 1) = w}
    IN  IF found = {} THEN <<>> ELSE CHOOSE w \in found : TRUE

\* dict(pairs): a key met again keeps its place and takes the new value
DictPut(members, key, v) ==
    IF \E k \in 1..Len(members) : members[k].key = key
    THEN [k \in 1..Len(members) |->
            IF members[k].key = key THEN [key |-> key, val |-> v] ELSE members[k]]
    ELSE Append(members, [key |-> key, val |-> v])

\* the end of the run of "[" and white space that starts at i
OpensEnd(s, i) == RunEnd(s, i, {"[", " ", "\t", "\n", "\r"})

\* the number of "[" in it: arrays of which the first item is an array
LeadingOpens(s, i) == Cardinality({k \in i..(OpensEnd(s, i) - 1) : s[k] = "["})

\* the index of the c-th "]" from q on
NthClose(s, q, c) ==
    CHOOSE j \in q..Len(s) : s[j] = "]" /\ Cardinality({x \in q..j : s[x] = "]"}) = c

RECURSIVE ParseValue(_, _, _)
RECURSIVE ParseItems(_, _, _, _)
RECURSIVE ParseMembers(_, _, _, _)
RECURSIVE CloseOpens(_, _, _, _)

\* JSONArray after "[" or ",": i is at the first character of a value, d
\* the number of arrays and objects open around it
ParseItems(s, i, d, acc) ==
    LET r == ParseValue(s, i, d)
        j == SkipWs(s, r.next)
    IN  IF ~r.ok THEN r
        ELSE IF j > Len(s) THEN ScanFail(d)
        ELSE IF s[j] = "," THEN ParseItems(s, SkipWs(s, j + 1), d, Append(acc, r.val))
        ELSE IF s[j] = "]" THEN ParseOk(JsonList(Append(acc, r.val)), j + 1)
        ELSE ScanFail(d)

\* JSONObject after "{" or ",": i is at the opening quote of a key
ParseMembers(s, i, d, acc) ==
    IF i > Len(s) \/ s[i] # Quote THEN ScanFail(d)
    ELSE LET key == ParseString(s, i, d)
             c   == SkipWs(s, key.next)
         IN  IF ~key.ok \/ c > Len(s) \/ s[c] # ":" THEN ScanFail(d)
             ELSE LET r   == ParseValue(s, SkipWs(s, c + 1), d)
                      j   == SkipWs(s, r.next)
                      got == DictPut(acc, key.val.s, r.val)
                  IN  IF ~r.ok THEN r
                      ELSE IF j > Len(s) THEN ScanFail(d)
                      ELSE IF s[j] = "," THEN ParseMembers(s, SkipWs(s, j + 1), d, got)
                      ELSE IF s[j] = "}" THEN ParseOk(JsonVal("dict", <<>>, got), j + 1)
                      ELSE ScanFail(d)

\* JSONArray of the arrays that opened one in the other: r is the first
\* item of an array inside d arrays and objects, the innermost of k arrays
\* of which nothing but the "[" was read.  The "]" that follow r close as
\* many of them; after a "," the array that is open then takes its other
\* items.
CloseOpens(s, r, d, k) ==
    IF ~r.ok \/ k = 0 THEN r
    ELSE LET e == RunEnd(s, r.next, {"]", " ", "\t", "\n", "\r"})
             m == Cardinality({x \in r.next..(e - 1) : s[x] = "]"})
         IN  IF m >= k THEN ParseOk(Wrap(r.val, k), NthClose(s, r.next, k) + 1)
             ELSE IF e <= Len(s) /\ s[e] = ","
             THEN CloseOpens(s, ParseItems(s, SkipWs(s, e + 1), d - m, <<Wrap(r.val, m)>>),
                             d - m - 1, k - m - 1)
             ELSE ScanFail(d - m)

\* JSONArray after "[", inside d arrays and objects
InnerArray(s, p, d) ==
    IF p <= Len(s) /\ s[p] = "]" THEN ParseOk(JsonVal("list", <<>>, <<>>), p + 1)
    ELSE ParseItems(s, p, d, <<>>)

\* scan_once at index i, inside d arrays and objects: entering one more
\* at the limit raises RecursionError.  Arrays that open one in the other
\* are entered together.
ParseValue(s, i, d) ==
    IF i > Len(s) THEN ParseFail
    ELSE IF s[i] = Quote THEN ParseString(s, i, d)
    ELSE IF s[i] = "{" THEN
        LET j == SkipWs(s, i + 1)
        IN  IF d + 1 >= NestingLimit THEN ParseRaise("RecursionError")
            ELSE IF j <= Len(s) /\ s[j] = "}" THEN ParseOk(JsonVal("dict", <<>>, <<>>), j + 1)
            ELSE ParseMembers(s, j, d + 1, <<>>)
    ELSE IF s[i] = "[" THEN
        LET n == LeadingOpens(s, i)
        IN  IF d + n >= NestingLimit THEN ParseRaise("RecursionError")
            ELSE CloseOpens(s, InnerArray(s, OpensEnd(s, i), d + n), d + n - 1, n - 1)
    ELSE IF s[i] \in AsciiDigits \/ (s[i] = "-" /\ i < Len(s) /\ s[i + 1] \in AsciiDigits)
         THEN ParseNumber(s, i)
    ELSE IF LiteralAt(s, i) # <<>>
         THEN ParseOk(JsonVal("lit", LiteralAt(s, i), <<>>), i + Len(LiteralAt(s, i)))
    ELSE ParseFail

\* JSONDecoder.decode after raw_decode gave r: nothing but white space may
\* follow the value ("Extra data")
DecodeEnd(s, r) ==
    IF ~r.ok THEN r
    ELSE IF SkipWs(s, r.next) = Len(s) + 1 THEN r ELSE ParseFail

\* json.loads(s): one value, white space around it, nothing after it
JsonLoads(s) == DecodeEnd(s, ParseValue(s, SkipWs(s, 1), 0))

----------------------------------------------------------------------------
(* load_file (lines 35-66) and the loading loop (lines 124-133)             *)
(* (specification SpecLoad).                                                *)

\* len(v) > 50, lines 47, 50, 55, 59
LongEnough(v) == Len(v) > MinFieldLen

\* isinstance(v, str) and len(v) > 50
IsLongStr(v) == v.t = "str" /\ LongEnough(v.s)

\* lines 46-48 and 58-60: the long string values of a dict, in its order
RECURSIVE DictFields(_)
DictFields(members) ==
    IF members = <<>> THEN <<>>
    ELSE (IF IsLongStr(Head(members).val) THEN <<Head(members).val.s>> ELSE <<>>)
         \o DictFields(Tail(members))

\* lines 54-60: the long strings of a list and of the dicts in it
RECURSIVE ListFields(_)
ListFields(items) ==
    IF items = <<>> THEN <<>>
    ELSE (IF IsLongStr(Head(items)) THEN <<Head(items).s>>
          ELSE IF Head(items).t = "dict" THEN DictFields(Head(items).items)
          ELSE <<>>)
         \o ListFields(Tail(items))

\* lines 45-60: what one parsed line adds to docs
FieldsOf(obj) ==
    IF obj.t = "dict" THEN DictFields(obj.items)
    ELSE IF IsLongStr(obj) THEN <<obj.s>>
    ELSE IF obj.t = "list" THEN ListFields(Items(obj))
    ELSE <<>>

\* lines 43-62: docs after a line that json.loads answered with r; the
\* except branch of lines 61-62 leaves docs as it is
AfterLoads(got, r) == IF r.ok THEN got \o FieldsOf(r.val) ELSE got

\* lines 41-62, one turn of the loop: docs after the line, from docs before it
LoadLine(got, line) == AfterLoads(got, JsonLoads(Strip(line)))

\* lines 42, 61: the exception of json.loads that except JSONDecodeError does
\* not catch and that leaves load_file, "none" when there is none
LoadError(line) ==
    [none |-> "none", JSONDecodeError |-> "none", ValueError |-> "ValueError",
     RecursionError |-> "RecursionError"][JsonLoads(Strip(line)).err]

\* FILES, lines 20-24: the suffix of each file
FILES == <<".txt", ".json", ".jsonl">>

\* the most lines the loop of line 40 reads, all files together
MaxLines == 2

\* strings of 51 and of 50 characters, and short ones
LongX   == [k \in 1..(MinFieldLen + 1) |-> "x"]
LongY   == [k \in 1..(MinFieldLen + 1) |-> "y"]
Exact50 == [k \in 1..MinFieldLen |-> "z"]

\* a JSON string literal
Lit(chars) == <<Quote>> \o chars \o <<Quote>>
Colon == <<":", " ">>
Comma == <<",", " ">>
Eol == <<"\n">>

\* {"k": "x...", "n": 1, "t": "z..."}
LineDict ==
    <<"{">> \o Lit(<<"k">>) \o Colon \o Lit(LongX) \o Comma \o Lit(<<"n">>) \o Colon \o <<"1">>
        \o Comma \o Lit(<<"t">>) \o Colon \o Lit(Exact50) \o <<"}">> \o Eol
\* ["y...", "k", {"k": "x...", "t": "y..."}, 1]
LineList ==
    <<"[">> \o Lit(LongY) \o Comma \o Lit(<<"k">>) \o Comma
        \o <<"{">> \o Lit(<<"k">>) \o Colon \o Lit(LongX) \o Comma \o Lit(<<"t">>) \o Colon
        \o Lit(LongY) \o <<"}">> \o Comma \o <<"1", "]">> \o Eol
\* {"k": "x..."   (cut short)
LineTruncated == <<"{">> \o Lit(<<"k">>) \o Colon \o Lit(LongX) \o Eol
\* a number of 4301 digits
LineBigInt == [k \in 1..(MaxIntDigits + 1) |-> "1"] \o Eol
\* 995 times "[": arrays opened and never closed
LineDeep == [k \in 1..NestingLimit |-> "["] \o Eol
\* 992 times "[" and a quote: a string that does not end, inside 992 arrays
LineDeepString == [k \in 1..ErrmsgLimit |-> "["] \o <<Quote>> \o Eol
\* 991 times "[" and a quote
LineDeepSkipped == [k \in 1..(ErrmsgLimit - 1) |-> "["] \o <<Quote>> \o Eol
\* {"k": {"t": "x..."}}
LineNested ==
    <<"{">> \o Lit(<<"k">>) \o Colon \o <<"{">> \o Lit(<<"t">>) \o Colon \o Lit(LongX)
        \o <<"}", "}">> \o Eol
\* the lines a JSON file may hold: the eight above and
\*   "x...<TAB>"             (a control character in a string)
\*   "x..."                  "z..." (50 characters)
\*   {"k": ["x..."]}         [["x..."]]
\*       "k": "x...",        (a line of a pretty-printed file)
\*   an empty line
LinePool ==
    { LineDict, LineList, LineTruncated, LineBigInt, LineDeep, LineDeepString,
      LineDeepSkipped, LineNested,
      Lit(LongX \o <<"\t">>) \o Eol,
      Lit(LongX) \o Eol,
      Lit(Exact50) \o Eol,
      <<"{">> \o Lit(<<"k">>) \o Colon \o <<"[">> \o Lit(LongX) \o <<"]", "}">> \o Eol,
      <<"[", "[">> \o Lit(LongX) \o <<"]", "]">> \o Eol,
      <<" ", " ">> \o Lit(<<"k">>) \o Colon \o Lit(LongX) \o <<",">> \o Eol,
      Eol }

\* what a file that is not JSON may hold
TextPool == {<<>>, <<"a", " ", "b", "\n">>}

InitLoad ==
    /\ pc = "load"
    /\ all_texts = <<>>
    /\ PipeRestInit
    /\ fidx = 1
    /\ lpc = "next"
    /\ docs = <<>>
    /\ file_lines = <<>>
    /\ nread = 0
    /\ console = <<>>
    /\ returned = <<>>
    /\ OthersIdle("load")

\* lines 128, 130-131: path.exists() is false
FileMissing ==
    /\ lpc = "next"
    /\ fidx <= Len(FILES)
    /\ console' = Append(console, <<"File not found", fidx>>)
    /\ fidx' = fidx + 1
    /\ UNCHANGED <<pc, all_texts, pipeRest, lpc, docs, file_lines, nread, returned>>
    /\ UNCHANGED <<stripVars, collapseVars, piiVars>>

\* what open(path, "r", ...) raises on a path that exists and cannot be
\* opened for reading: a directory, a file the user may not read, a socket
\* or a device that is not there
OpenErrors == {"IsADirectoryError", "PermissionError", "OSError"}

\* what reading from the open file raises when the device fails
ReadErrors == {"OSError"}

\* lines 129, 63-66: a file that is not JSON is one document, whatever its
\* length; an exception of the open() of line 64 or of the f.read() of
\* line 65 leaves load_file and ends the script
LoadText ==
    /\ lpc = "next"
    /\ fidx <= Len(FILES)
    /\ FILES[fidx] \notin {".json", ".jsonl"}
    /\ \/ /\ \E content \in TextPool :
                /\ all_texts' = all_texts \o <<content>>
                /\ returned' = Append(returned, <<content>>)
          /\ fidx' = fidx + 1
          /\ UNCHANGED <<lpc, error>>
       \/ /\ error' \in OpenErrors \cup ReadErrors
          /\ lpc' = "aborted"
          /\ UNCHANGED <<all_texts, returned, fidx>>
    /\ UNCHANGED <<pc, langs, lang_filtered, cleaned, lsh, deduped,
                   verdicts, no_pii, final_texts, outfile, stats>>
    /\ UNCHANGED <<docs, file_lines, nread, console>>
    /\ UNCHANGED <<stripVars, collapseVars, piiVars>>

\* lines 37-39: load_file opens a .json or .jsonl file; an exception of the
\* open() of line 39 leaves load_file and ends the script
OpenJson ==
    /\ lpc = "next"
    /\ fidx <= Len(FILES)
    /\ FILES[fidx] \in {".json", ".jsonl"}
    /\ docs' = <<>>
    /\ file_lines' = <<>>
    /\ \/ /\ lpc' = "reading"
          /\ UNCHANGED error
       \/ /\ error' \in OpenErrors
          /\ lpc' = "aborted"
    /\ UNCHANGED <<pc, all_texts, langs, lang_filtered, cleaned, lsh, deduped,
                   verdicts, no_pii, final_texts, outfile, stats>>
    /\ UNCHANGED <<fidx, nread, console, returned>>
    /\ UNCHANGED <<stripVars, collapseVars, piiVars>>

\* lines 40-62: the file gives one more line, or the read of line 40 fails
\* and its exception leaves load_file
ReadLine ==
    /\ lpc = "reading"
    /\ \/ /\ nread < MaxLines
          /\ \E line \in LinePool :
                /\ file_lines' = Append(file_lines, line)
                \* error is "none" as long as a file is read
                /\ error' = LoadError(line)
                /\ IF error' = "none"
                   THEN /\ docs' = LoadLine(docs, line)
                        /\ UNCHANGED lpc
                   ELSE \* the exception leaves load_file and line 129: the script ends
                        /\ lpc' = "aborted"
                        /\ docs' = docs
          /\ nread' = nread + 1
       \/ /\ error' \in ReadErrors
          /\ lpc' = "aborted"
          /\ UNCHANGED <<docs, file_lines, nread>>
    /\ UNCHANGED <<pc, all_texts, langs, lang_filtered, cleaned, lsh, deduped,
                   verdicts, no_pii, final_texts, outfile, stats>>
    /\ UNCHANGED <<fidx, console, returned>>
    /\ UNCHANGED <<stripVars, collapseVars, piiVars>>

\* lines 66, 129: the file has no more line, load_file returns docs
EndOfFile ==
    /\ lpc = "reading"
    /\ all_texts' = all_texts \o docs
    /\ returned' = Append(returned, docs)
    /\ docs' = <<>>
    /\ file_lines' = <<>>
    /\ fidx' = fidx + 1
    /\ lpc' = "next"
    /\ UNCHANGED <<pc, pipeRest, nread, console>>
    /\ UNCHANGED <<stripVars, collapseVars, piiVars>>

\* line 133, after the loop
LoadDone ==
    /\ lpc = "next"
    /\ fidx = Len(FILES) + 1
    /\ console' = Append(console, <<"Loaded", Len(all_texts)>>)
    /\ lpc' = "done"
    /\ UNCHANGED <<pc, all_texts, pipeRest, fidx, docs, file_lines, nread, returned>>
    /\ UNCHANGED <<stripVars, collapseVars, piiVars>>

NextLoad ==
    \/ FileMissing
    \/ LoadText
    \/ OpenJson
    \/ ReadLine
    \/ EndOfFile
    \/ LoadDone

SpecLoad == InitLoad /\ [][NextLoad]_vars

\* json.loads(line.strip()) does not raise
WellFormed(line) == JsonLoads(Strip(line)).ok

\* the lines of a file without those json.loads raises on
RECURSIVE WellFormedOnly(_)
WellFormedOnly(lines) ==
    IF lines = <<>> THEN <<>>
    ELSE (IF WellFormed(Head(lines)) THEN <<Head(lines)>> ELSE <<>>)
         \o WellFormedOnly(Tail(lines))

\* the loop of lines 40-62 over the lines of a file, from the docs got so far
RECURSIVE LoadLines(_, _)
LoadLines(lines, got) ==
    IF lines = <<>> THEN got
    ELSE LoadLines(Tail(lines), LoadLine(got, Head(lines)))

\* the values directly inside a dict or a list, in the order of the text
Children(obj) ==
    IF obj.t = "dict" THEN [k \in 1..Len(obj.items) |-> obj.items[k].val]
    ELSE IF obj.t = "list" THEN Items(obj)
    ELSE <<>>

\* the strings among vals, each with the path of containers that leads to it
RECURSIVE StringsAmong(_, _)
StringsAmong(vals, path) ==
    IF vals = <<>> THEN <<>>
    ELSE (IF Head(vals).t = "str" THEN <<[path |-> path, s |-> Head(vals).s]>> ELSE <<>>)
         \o StringsAmong(Tail(vals), path)

\* the strings of a record down to one level of nesting, in the order of the
\* text: the record itself, the strings directly in a top-level dict or
\* list, and those directly in a dict or list that is a value or item of it
RECURSIVE LocatedIn(_, _)
LocatedIn(vals, outer) ==
    IF vals = <<>> THEN <<>>
    ELSE (IF Head(vals).t = "str" THEN <<[path |-> <<outer>>, s |-> Head(vals).s]>>
          ELSE StringsAmong(Children(Head(vals)), <<outer, Head(vals).t>>))
         \o LocatedIn(Tail(vals), outer)

Located(obj) ==
    IF obj.t = "str" THEN <<[path |-> <<>>, s |-> obj.s]>>
    ELSE LocatedIn(Children(obj), obj.t)

\* every place a string can be at, down to one level of nesting
NestedPaths ==
    { <<>>, <<"dict">>, <<"list">>, <<"list", "dict">>, <<"list", "list">>,
      <<"dict", "dict">>, <<"dict", "list">> }

\* the places load_file looks at: a top-level string, the values of a
\* top-level dict, the items of a top-level list and the values of a dict
\* that is an item of a top-level list
LoadedPaths == { <<>>, <<"dict">>, <<"list">>, <<"list", "dict">> }

\* the strings of more than 50 characters among the located ones at the paths
RECURSIVE LongAt(_, _)
LongAt(entries, paths) ==
    IF entries = <<>> THEN <<>>
    ELSE (IF Head(entries).path \in paths /\ Len(Head(entries).s) > MinFieldLen
          THEN <<Head(entries).s>> ELSE <<>>)
         \o LongAt(Tail(entries), paths)

\* for every parsed line of the open file, in order, its long strings at paths
RECURSIVE FieldsAt(_, _)
FieldsAt(lines, paths) ==
    IF lines = <<>> THEN <<>>
    ELSE (IF WellFormed(Head(lines))
          THEN LongAt(Located(JsonLoads(Strip(Head(lines))).val), paths) ELSE <<>>)
         \o FieldsAt(Tail(lines), paths)

\* what load_file does emit: the documents of the open file are, in record
\* order, exactly the strings of more than 50 characters that are the
\* record itself, a value of the top-level dict, an item of the top-level
\* list or a value of a dict that is an item of the top-level list
EmitsLoadedPaths ==
    /\ docs = FieldsAt(file_lines, LoadedPaths)
    /\ \A k \in 1..Len(docs) : Len(docs[k]) > MinFieldLen

\* C8: every string of more than 50 characters anywhere within one level of
\* nesting of a parsed record (directly in the top-level dict or list, or in
\* a dict or list that is a value or an item of it) is emitted as a
\* document, in record order, and nothing else is.
C8_AllNestedFields == docs = FieldsAt(file_lines, NestedPaths)

\* a record whose only long string is in a dict that is a value of the
\* top-level dict has been parsed, and no document came of it
C8_Witness ==
    /\ lpc = "reading"
    /\ file_lines = <<LineNested>>
    /\ WellFormed(LineNested)
    /\ Located(JsonLoads(Strip(LineNested)).val) = <<[path |-> <<"dict", "dict">>, s |-> LongX]>>
    /\ docs = <<>>

\* the number of lines of the open file that json.loads raised on
Malformed(lines) == Len(lines) - Len(WellFormedOnly(lines))

\* the files the loop found missing, from what it printed
Warned == {k \in 1..Len(console) : console[k][1] = "File not found"}

\* C9: a line that json.loads cannot parse is skipped and counted without
\* raising; a missing path is skipped with a warning; loading goes on to the
\* end, and the documents of the other lines and files are those that the
\* files would give without the malformed lines and the missing paths.
C9_SkippedAndCounted ==
    /\ error = "none"
    /\ lpc # "aborted"
    /\ docs = LoadLines(WellFormedOnly(file_lines), <<>>)
    /\ all_texts = Flatten(returned)
    /\ \A k \in Warned : console[k][2] < fidx
    /\ Len(returned) + Cardinality(Warned) = fidx - 1
    /\ lpc = "done" => console[Len(console)] = <<"Loaded", Len(all_texts)>>
    /\ Malformed(file_lines) > 0 =>
          \E k \in 1..Len(console) : console[k] = <<"skipped", Malformed(file_lines)>>

\* after a loaded first file, the second file gave a record with a long
\* field and then a line of arrays opened and never closed: the exception
\* ended the loading, and the document of the record is in no all_texts
C9_Witness ==
    /\ lpc = "aborted"
    /\ error = "RecursionError"
    /\ file_lines = <<LineDict, LineDeep>>
    /\ docs = <<LongX>>
    /\ Len(returned) = 1
    /\ all_texts = Flatten(returned)

----------------------------------------------------------------------------
(* Claims about the order of the stages of the script (specification Spec). *)

\* the position in all_texts of the q-th document the language filter kept
SourceOf(q) == Nth(AllowedIdx, q)

\* the loop of lines 148-153 has processed every cleaned document
DedupEnded ==
    /\ Len(verdicts) = Len(cleaned)
    /\ \/ pc \in {"dedup", "ngrams", "write", "stats", "done"}
       \/ pc = "aborted" /\ error = "OSError"

\* C11: the documents the dedup loop sees are exactly the documents whose
\* language is allowed, stripped, in their order; every bucket entry of the
\* index is the signature of an accepted allowed document, and a dropped
\* document is dropped because of an accepted allowed document before it.
\* The index is compared with the signatures while the loop runs, its last
\* turn included; the later stages leave it alone (C13).
\* With three loaded documents of which one is rejected by the language
\* filter, in any position, and the other two sharing a band bucket, the
\* language stage keeps two, only the first of them survives deduplication
\* and the corpus has exactly one entry.
C11_StageOrdering ==
    /\ pc # "lang" =>
          /\ Len(lang_filtered) = Cardinality(AllowedIdx)
          /\ \A q \in 1..Len(lang_filtered) : lang_filtered[q] = all_texts[SourceOf(q)]
    /\ pc \in {"dedup", "ngrams", "write", "stats", "done"} =>
          Len(cleaned) = Cardinality(AllowedIdx)
    /\ (pc = "dedup" /\ verdicts = <<>>) =>
          \A q \in 1..Len(cleaned) : cleaned[q] = StrippedDoc[all_texts[SourceOf(q)]].text
    /\ Len(verdicts) <= Cardinality(AllowedIdx)
    /\ LET mh == [q \in 1..Len(verdicts) |-> SignatureOf[cleaned[q]]]
       IN  pc = "dedup" =>
           /\ \A b \in 1..Bands : \A e \in lsh.hashtables[b] :
                 \E q \in AcceptedUpTo(Len(verdicts)) :
                     /\ langs[SourceOf(q)] \in LANGUAGE_FILTER
                     /\ e[1] = BandKey(mh[q], b)
           /\ \A q \in 1..Len(verdicts) :
                 ~verdicts[q] =>
                     \E p \in AcceptedUpTo(q - 1) :
                         \E b \in 1..Bands : BandKey(mh[p], b) = BandKey(mh[q], b)
    /\ (/\ DedupEnded
        /\ Len(all_texts) = 3
        /\ Cardinality(AllowedIdx) = 2
        /\ SharesBucket(1, 2))
          => /\ Len(lang_filtered) = 2
             /\ deduped = <<cleaned[1]>>
             /\ verdicts = <<TRUE, FALSE>>
             /\ pc \in {"write", "stats", "done", "aborted"} => Len(final_texts) = 1
             /\ pc \in {"stats", "done"} => outfile.data = Block(final_texts[1])

\* a finished run over three documents: the rejected one stands between two
\* different allowed texts that share a band bucket, and the corpus holds
\* one entry
C11_Witness ==
    /\ pc = "done"
    /\ Len(all_texts) = 3
    /\ AllowedIdx = {1, 3}
    /\ all_texts[1] # all_texts[3]
    /\ SharesBucket(1, 2)
    /\ Len(final_texts) = 1
    /\ outfile.opened

\* the corpus file holds a block for every entry of final_texts
CorpusWritten ==
    /\ outfile.opened
    /\ outfile.data = FileText(final_texts)

\* the report is written only once the corpus file is opened and fully
\* written; an open() that fails ends the script with its error and without
\* a report
ReportAfterCorpus ==
    /\ stats.written => CorpusWritten
    /\ error # "none" <=> pc = "aborted"
    /\ error = "OSError" => Len(final_texts) = Len(deduped)
    /\ pc = "aborted" => ~stats.written
    /\ ~outfile.opened => outfile.data = <<>>

\* C12: the report comes after the written corpus, a failing open() of the
\* output is surfaced and leaves no report, and a run ends without a written
\* corpus and a report only when the output could not be opened.
C12_OutputFailureOrdering ==
    /\ ReportAfterCorpus
    /\ pc = "aborted" => (error = "OSError" /\ ~outfile.opened)

\* a run over one document, a marked section html.parser does not know:
\* strip_html raises on line 141 and the script ends there, the output
\* never opened and no report written
C12_Witness ==
    /\ all_texts = <<Padded(<<"<", "!", "[", "a", "[">>)>>
    /\ lang_filtered = all_texts
    /\ pc = "aborted"
    /\ error = "ParserRejectedMarkup"
    /\ ~outfile.opened
    /\ ~stats.written

\* the index holds exactly the keys doc_0 .. doc_(k-1), k = len(deduped),
\* each of them once in every band, and the key of the next accepted
\* document is not among them
KeysAreCounted ==
    /\ lsh.keys = {DocKey(k) : k \in 0..(Len(deduped) - 1)}
    /\ \A b \in 1..Bands : {e[2] : e \in lsh.hashtables[b]} = lsh.keys
    /\ Len(deduped) = Cardinality(AcceptedUpTo(Len(verdicts)))
    /\ ~LshInsertRaises(lsh, DocKey(Len(deduped)))
    /\ error # "ValueError"

\* a turn of the loop that drops its document changes neither the index nor
\* deduped; the index changes only in a turn of the loop that accepts its
\* document, by the insertion of that document under the key doc_k
IndexOwnedByLoop ==
    /\ (Len(verdicts') = Len(verdicts) + 1 /\ ~verdicts'[Len(verdicts')])
          => (lsh' = lsh /\ deduped' = deduped)
    /\ lsh' # lsh =>
          /\ pc = "dedup" /\ pc' = "dedup"
          /\ verdicts' = Append(verdicts, TRUE)
          /\ deduped' = Append(deduped, cleaned[Len(verdicts')])
          /\ lsh' = LshInsert(lsh, DocKey(Len(deduped)), get_minhash(cleaned[Len(verdicts')]))
    /\ pc # "dedup" => (lsh' = lsh /\ deduped' = deduped /\ verdicts' = verdicts)

\* C13: after any prefix of the input the keys of the index are exactly
\* doc_0 .. doc_(k-1) with k = len(deduped), so the key made for an accepted
\* document is never in the index already and insert never raises; a
\* dropped document leaves the index and deduped unchanged; no stage other
\* than the dedup loop changes the index.
C13_IndexBookkeeping == [](KeysAreCounted) /\ [][IndexOwnedByLoop]_vars

\* a document dropped after two documents were accepted: the index still
\* holds doc_0 and doc_1 only
C13_Witness ==
    /\ verdicts = <<TRUE, TRUE, FALSE>>
    /\ lsh.keys = {DocKey(0), DocKey(1)}
    /\ Len(deduped) = 2

=============================================================================
